---- MODULE Spec2Model ----
(***************************************************************************)
(* Model of the R2R MCP server glue layer (src/src/server.py):             *)
(*   - the route classifier: the ordered rule list _route_maps handed to   *)
(*     FastMCP.from_openapi, and the first-match classification the        *)
(*     generator performs on it;                                           *)
(*   - the credential provider DynamicBearerAuth.auth_flow;                *)
(*   - the start of the server: the module-level statements of server.py   *)
(*     from the configuration to mcp.run();                                *)
(*   - the handlers that send requests through the shared client.          *)
(* Strings that the code inspects character by character (paths, regular   *)
(* expressions, tokens, header values) are sequences of one-character      *)
(* strings.                                                                *)
(***************************************************************************)
EXTENDS Naturals, Integers, Sequences, FiniteSets, TLC

VARIABLES
    route_maps,     \* the ordered rule list given to the generator
    route,          \* the endpoint being classified: [method, path]
    idx,            \* position of the classifier in route_maps
    evaluated,      \* indices of the rules the endpoint was tested against
    mcp_type,       \* role given to the endpoint, "NONE" while it has none
    surface,        \* components generated for the endpoint
    cpc,            \* classifier position: "scan" | "done"
    runs,           \* how many times the endpoint has been classified
    prev_type,      \* role the previous classification of the endpoint gave
    env_api_key,    \* os.environ["R2R_API_KEY"]; <<>> when unset or empty
    _debug_logging, \* DEBUG_LOGGING was "true" when the module was loaded
    calls,          \* auth_flow activations, one per outbound request
    log,            \* records written through logger, in order
    boot,           \* what the process finds when it starts: environment
                    \* variables, the answer of the spec URL, the file system
    spc,            \* section of server.py being executed: see ModuleOrder
    events,         \* startup events, in the order they happened
    _client,        \* the shared httpx.AsyncClient: "none" | "open" | "closed"
    startup_error,  \* message of the exception that ended the start, or ""
    invocations,    \* handler activations, one per incoming request
    pipeline        \* a Pipeline or ConditionalPipeline object and its run

vars == <<route_maps, route, idx, evaluated, mcp_type, surface, cpc, runs,
          prev_type, env_api_key, _debug_logging, calls, log,
          boot, spc, events, _client, startup_error, invocations,
          pipeline>>

classVars == <<route_maps, route, idx, evaluated, mcp_type, surface, cpc,
               runs, prev_type>>
authVars == <<env_api_key, _debug_logging, calls, log>>
startVars == <<boot, spc, events, _client, startup_error>>
pipeVars == <<pipeline>>

\* no pipeline utility is in use
PipesIdle ==
    /\ pipeline = [kind |-> "none"]

(***************************************************************************)
(* Bounds of the model.                                                    *)
(***************************************************************************)
\* longest path, in segments
MaxSegs == 3
\* longest rule list
MaxRules == 3
\* outbound requests in flight at once
MaxRequests == 2
\* handler activations of one run
MaxInvocations == 2
\* steps of a pipeline
MaxSteps == 3
\* calls of cached_pipeline_step
MaxCalls == 2
\* seconds the clock runs
MaxTime == 3
\* items given to pipeline_parallel_analysis
MaxItems == 3
\* files that match the pattern of batch_upload
MaxFiles == 3
\* largest max_retries given to sample_with_retry
MaxRetries == 4

(***************************************************************************)
(* Paths and endpoints.                                                    *)
(***************************************************************************)
Seg_v3 == <<"v", "3">>
Seg_documents == <<"d", "o", "c", "u", "m", "e", "n", "t", "s">>
Seg_id == <<"{", "i", "d", "}">>
SegPool == {Seg_v3, Seg_documents, Seg_id}

RECURSIVE JoinPath(_)
JoinPath(segs) ==
    IF segs = <<>> THEN <<>>
    ELSE <<"/">> \o Head(segs) \o JoinPath(Tail(segs))

Paths == {JoinPath(s) : s \in UNION {[1..n -> SegPool] : n \in 1..MaxSegs}}

Methods == {"GET", "POST", "PUT", "PATCH", "DELETE", "HEAD"}

Endpoints == [method : Methods, path : Paths]

\* the three paths the specification names
Path_documents == JoinPath(<<Seg_v3, Seg_documents>>)
Path_documents_id == JoinPath(<<Seg_v3, Seg_documents, Seg_id>>)

\* a path holds a bracketed parameter: a "{" with a "}" after it
HasPathParam(path) ==
    \E i \in 1..Len(path) : \E j \in (i+1)..Len(path) :
        path[i] = "{" /\ path[j] = "}"

\* the path lies under /v3/
UnderV3(path) ==
    Len(path) >= 4 /\ SubSeq(path, 1, 4) = <<"/", "v", "3", "/">>

(***************************************************************************)
(* Regular expressions.  A pattern is a sequence of elements: "^", "$",    *)
(* ".*", an escaped literal "\\{" or "\\}", or a literal character.        *)
(* Paths hold no newline, so "." matches every character of a path.        *)
(***************************************************************************)
Lit(t) == IF t = "\\{" THEN "{" ELSE IF t = "\\}" THEN "}" ELSE t

\* pat[i..] matches s from position j on; when whole is set the match must
\* end after the last character of s
RECURSIVE re_match_here(_, _, _, _, _)
re_match_here(pat, i, s, j, whole) ==
    IF i > Len(pat) THEN (~whole \/ j = Len(s) + 1)
    ELSE IF pat[i] = "^" THEN
        j = 1 /\ re_match_here(pat, i + 1, s, j, whole)
    ELSE IF pat[i] = "$" THEN
        j = Len(s) + 1 /\ re_match_here(pat, i + 1, s, j, whole)
    ELSE IF pat[i] = ".*" THEN
        \E k \in j..(Len(s) + 1) : re_match_here(pat, i + 1, s, k, whole)
    ELSE
        /\ j <= Len(s)
        /\ s[j] = Lit(pat[i])
        /\ re_match_here(pat, i + 1, s, j + 1, whole)

\* re.fullmatch: the match starts at the first character and ends after the last
re_fullmatch(pat, s) == re_match_here(pat, 1, s, 1, TRUE)

\* re.search: a match of some substring
re_search(pat, s) ==
    \E st \in 1..(Len(s) + 1) : re_match_here(pat, 1, s, st, FALSE)

(***************************************************************************)
(* The rule list of the server.                                            *)
(***************************************************************************)
Tier1 ==
    [methods |-> {"GET"},
     pattern |-> <<"^", "/", "v", "3", "/", ".*", "\\{", ".*", "\\}", ".*", "$">>,
     mcp_type |-> "RESOURCE_TEMPLATE"]

Tier2 ==
    [methods |-> {"GET"},
     pattern |-> <<"^", "/", "v", "3", "/", ".*", "$">>,
     mcp_type |-> "RESOURCE"]

Tier3 ==
    [methods |-> {"POST", "PUT", "PATCH", "DELETE"},
     pattern |-> <<".*">>,
     mcp_type |-> "TOOL"]

\* a plausible slip: tiers 1 and 2 declared in the other order
RouteMapsTiersSwapped == <<Tier2, Tier1, Tier3>>

\* a plausible slip: tier 3 restricted to /v3/ like the other two
RouteMapsToolUnderV3 ==
    <<Tier1, Tier2,
      [methods |-> {"POST", "PUT", "PATCH", "DELETE"},
       pattern |-> <<"^", "/", "v", "3", "/", ".*", "$">>,
       mcp_type |-> "TOOL"]>>

\* a plausible slip: tier 1 written without its "^" anchor
RouteMapsUnanchored ==
    <<[methods |-> {"GET"},
       pattern |-> <<"/", "v", "3", "/", ".*", "\\{", ".*", "\\}", ".*", "$">>,
       mcp_type |-> "RESOURCE_TEMPLATE"],
      Tier2, Tier3>>

_route_maps == <<Tier1, Tier2, Tier3>>

\* further rules, to build other rule lists than the bundled one
RuleGetAny ==
    [methods |-> {"GET"}, pattern |-> <<".*">>, mcp_type |-> "TOOL"]
RuleBraces ==
    [methods |-> {"GET", "POST"}, pattern |-> <<"\\{", ".*", "\\}">>,
     mcp_type |-> "RESOURCE"]

RulePool == {_route_maps[i] : i \in 1..Len(_route_maps)} \cup {RuleGetAny, RuleBraces}

Injective(f) == \A a, b \in DOMAIN f : f[a] = f[b] => a = b

RuleLists ==
    UNION {{l \in [1..n -> RulePool] : Injective(l)} : n \in 1..MaxRules}

(***************************************************************************)
(* Classification, as the generator is specified to perform it.            *)
(***************************************************************************)
\* a variant that accepts a match of a substring of the path
PatternMatchesSubstring(pattern, path) == re_search(pattern, path)

PatternMatches(pattern, path) == re_fullmatch(pattern, path)

RuleMatches(rm, r) ==
    r.method \in rm.methods /\ PatternMatches(rm.pattern, r.path)

\* indices of the rules of a list that match an endpoint
Matching(rms, r) == {i \in 1..Len(rms) : RuleMatches(rms[i], r)}

Min(S) == CHOOSE x \in S : \A y \in S : x <= y

\* the list with the rules at positions i and j exchanged
Swap(rms, i, j) ==
    [k \in 1..Len(rms) |-> IF k = i THEN rms[j] ELSE IF k = j THEN rms[i] ELSE rms[k]]

\* the loop over the rules, from position i on
RECURSIVE determine_route_type(_, _, _)
determine_route_type(rms, r, i) ==
    IF i > Len(rms) THEN "NONE"
    ELSE IF RuleMatches(rms[i], r) THEN rms[i].mcp_type
    ELSE determine_route_type(rms, r, i + 1)

classify(rms, r) == determine_route_type(rms, r, 1)

(***************************************************************************)
(* Tokens of the environment and the requests of the client.               *)
(***************************************************************************)
\* "abc123xyz789", the 12-character token the specification names
Token12 == <<"a", "b", "c", "1", "2", "3", "x", "y", "z", "7", "8", "9">>
\* a 14-character token
Token14 == <<"s", "k", "-", "A", "B", "C", "D", "E", "F", "G", "H", "I", "J", "K">>
\* "abcdefgh.....", a 13-character token that ends in five dots
TokenDots == <<"a", "b", "c", "d", "e", "f", "g", "h", ".", ".", ".", ".", ".">>
Tokens == {Token12, Token14, TokenDots}
\* values of R2R_API_KEY: unset or empty reads as ""
EnvValues == {<<>>} \cup Tokens

(***************************************************************************)
(* What the process finds when it starts, and the module-level settings.   *)
(* Texts that are only compared and concatenated are TLA+ strings.         *)
(***************************************************************************)
DefaultBaseUrl == "https://api.136-119-36-216.nip.io"
\* values of R2R_BASE_URL and of R2R_OPENAPI_URL; "" stands for unset
BaseUrlValues == {"", "http://localhost:7272"}
OpenapiUrlValues == {"", "https://specs.example.org/r2r.json"}

\* exceptions of httpx.get(...) and raise_for_status(); all are httpx.HTTPError
TransportErrors == {"ConnectError", "ReadTimeout"}
HTTPErrors == TransportErrors \cup {"HTTPStatusError"}

\* an answer of the spec URL: the exception raised, or "" and the body:
\* whether it is JSON, whether the JSON value is a mapping, the keys of the
\* mapping and whether its "info" entry is a mapping
Answer(error, is_json, is_dict, keys, info_is_dict) ==
    [error |-> error, is_json |-> is_json, is_dict |-> is_dict, keys |-> keys,
     info_is_dict |-> info_is_dict]

ValidDocument == Answer("", TRUE, TRUE, {"openapi", "info", "paths"}, TRUE)

SpecAnswers ==
    {Answer(e, FALSE, FALSE, {}, FALSE) : e \in HTTPErrors}
    \cup {Answer("", FALSE, FALSE, {}, FALSE),                   \* not JSON
          Answer("", TRUE, FALSE, {}, FALSE),                    \* a JSON list
          Answer("", TRUE, TRUE, {"info", "paths"}, TRUE),       \* no "openapi"
          Answer("", TRUE, TRUE, {"openapi", "info"}, FALSE),    \* "info": "x"
          Answer("", TRUE, TRUE, {"openapi", "paths"}, FALSE),   \* no "info"
          ValidDocument}

Boots ==
    [R2R_BASE_URL : BaseUrlValues,
     R2R_OPENAPI_URL : OpenapiUrlValues,
     local_copy : BOOLEAN,       \* a local copy of the document is on disk
     answer : SpecAnswers,
     generator_ok : BOOLEAN,     \* FastMCP.from_openapi returns
     as_main : BOOLEAN]          \* the module is run as __main__

_r2r_base_url ==
    IF boot.R2R_BASE_URL = "" THEN DefaultBaseUrl ELSE boot.R2R_BASE_URL

_r2r_openapi_url ==
    IF boot.R2R_OPENAPI_URL = ""
    THEN _r2r_base_url \o "/openapi.json"
    ELSE boot.R2R_OPENAPI_URL

\* the startup events in the order the statements of server.py produce them
StartupEvents == <<"route_maps", "client", "fetch", "from_openapi", "run">>

\* the module was loaded with the defaults and a valid document, FastMCP is
\* generating the surface
Generating ==
    /\ boot = [R2R_BASE_URL |-> "", R2R_OPENAPI_URL |-> "",
               local_copy |-> FALSE, answer |-> ValidDocument,
               generator_ok |-> TRUE, as_main |-> TRUE]
    /\ spc = "generate"
    /\ events = SubSeq(StartupEvents, 1, 4)
    /\ _client = "open"
    /\ startup_error = ""
    /\ invocations = <<>>

\* the same start, once mcp.run() serves requests
Serving ==
    /\ boot = [R2R_BASE_URL |-> "", R2R_OPENAPI_URL |-> "",
               local_copy |-> FALSE, answer |-> ValidDocument,
               generator_ok |-> TRUE, as_main |-> TRUE]
    /\ spc = "serving"
    /\ events = StartupEvents
    /\ _client = "open"
    /\ startup_error = ""

(***************************************************************************)
(* Initial states.                                                         *)
(***************************************************************************)
ClassInit ==
    /\ route \in Endpoints
    /\ idx = 1
    /\ evaluated = {}
    /\ mcp_type = "NONE"
    /\ surface = {}
    /\ cpc = "scan"
    /\ runs = 1
    /\ prev_type = "NONE"

AuthIdle ==
    /\ env_api_key = <<>>
    /\ _debug_logging = FALSE
    /\ calls = <<>>
    /\ log = <<>>

Init ==
    /\ route_maps \in RuleLists
    /\ ClassInit
    /\ AuthIdle
    /\ Generating
    /\ PipesIdle

(***************************************************************************)
(* One iteration of the classifier's loop over the rules.                  *)
(***************************************************************************)
\* a loop without "return": a later matching rule overwrites the role
MatchRuleKeepsScanning ==
    /\ cpc = "scan"
    /\ idx <= Len(route_maps)
    /\ RuleMatches(route_maps[idx], route)
    /\ evaluated' = evaluated \cup {idx}
    /\ mcp_type' = route_maps[idx].mcp_type
    /\ surface' = {[route |-> route, mcp_type |-> route_maps[idx].mcp_type]}
    /\ idx' = idx + 1
    /\ UNCHANGED <<route_maps, route, cpc, runs, prev_type,
                   authVars, startVars, invocations, pipeVars>>

\* the rule at idx matches: its role is the endpoint's role, the loop ends
MatchRule ==
    /\ cpc = "scan"
    /\ idx <= Len(route_maps)
    /\ RuleMatches(route_maps[idx], route)
    /\ evaluated' = evaluated \cup {idx}
    /\ mcp_type' = route_maps[idx].mcp_type
    /\ surface' = {[route |-> route, mcp_type |-> route_maps[idx].mcp_type]}
    /\ cpc' = "done"
    /\ UNCHANGED <<route_maps, route, idx, runs, prev_type,
                   authVars, startVars, invocations, pipeVars>>

\* the rule at idx does not match: on to the next rule
SkipRule ==
    /\ cpc = "scan"
    /\ idx <= Len(route_maps)
    /\ ~RuleMatches(route_maps[idx], route)
    /\ evaluated' = evaluated \cup {idx}
    /\ idx' = idx + 1
    /\ UNCHANGED <<route_maps, route, mcp_type, surface, cpc, runs, prev_type,
                   authVars, startVars, invocations, pipeVars>>

\* a default role for an endpoint no rule matches
NoMatchDefaultsToTool ==
    /\ cpc = "scan"
    /\ idx > Len(route_maps)
    /\ cpc' = "done"
    /\ mcp_type' = IF mcp_type = "NONE" THEN "TOOL" ELSE mcp_type
    /\ surface' = IF mcp_type = "NONE"
                  THEN {[route |-> route, mcp_type |-> "TOOL"]}
                  ELSE surface
    /\ UNCHANGED <<route_maps, route, idx, evaluated, runs, prev_type,
                   authVars, startVars, invocations, pipeVars>>

\* the list is exhausted: the endpoint keeps what it has, nothing is generated
NoMatch ==
    /\ cpc = "scan"
    /\ idx > Len(route_maps)
    /\ cpc' = "done"
    /\ UNCHANGED <<route_maps, route, idx, evaluated, mcp_type, surface, runs,
                   prev_type, authVars, startVars, invocations, pipeVars>>

Next == MatchRule \/ SkipRule \/ NoMatch

Spec == Init /\ [][Next]_vars

(***************************************************************************)
(* The classifier applied to a series of endpoints, while the environment  *)
(* changes: the rule list is built once and no operation writes to it.     *)
(***************************************************************************)
\* the orders in which the bundled rules can be declared
BundledOrders ==
    {l \in [1..Len(_route_maps) -> {_route_maps[i] : i \in 1..Len(_route_maps)}] :
        Injective(l)}

\* endpoints classified after the first one
LaterEndpoints ==
    [method : Methods,
     path : {Path_documents, Path_documents_id, JoinPath(<<Seg_documents>>)}]

InitSeries ==
    /\ route_maps \in BundledOrders
    /\ ClassInit
    /\ AuthIdle
    /\ Generating
    /\ PipesIdle

\* the role of the endpoint classified before is carried over
StartClassifyKeepsRole ==
    /\ cpc = "done"
    /\ \E e \in LaterEndpoints :
          /\ e # route
          /\ route' = e
    /\ idx' = 1
    /\ evaluated' = {}
    /\ cpc' = "scan"
    /\ runs' = 1
    /\ prev_type' = "NONE"
    /\ UNCHANGED <<route_maps, mcp_type, surface,
                   authVars, startVars, invocations, pipeVars>>

\* the generator turns to another endpoint of the document
StartClassify ==
    /\ cpc = "done"
    /\ \E e \in LaterEndpoints :
          /\ e # route
          /\ route' = e
    /\ idx' = 1
    /\ evaluated' = {}
    /\ mcp_type' = "NONE"
    /\ surface' = {}
    /\ cpc' = "scan"
    /\ runs' = 1
    /\ prev_type' = "NONE"
    /\ UNCHANGED <<route_maps, authVars, startVars, invocations, pipeVars>>

\* the same endpoint is classified a second time against the same list
Reclassify ==
    /\ cpc = "done"
    /\ runs = 1
    /\ prev_type' = mcp_type
    /\ runs' = 2
    /\ idx' = 1
    /\ evaluated' = {}
    /\ mcp_type' = "NONE"
    /\ surface' = {}
    /\ cpc' = "scan"
    /\ UNCHANGED <<route_maps, route, authVars, startVars, invocations, pipeVars>>

\* the platform injects, changes or removes R2R_API_KEY
SetEnv ==
    /\ \E t \in EnvValues :
          /\ t # env_api_key
          /\ env_api_key' = t
    /\ UNCHANGED <<classVars, startVars, invocations,
                   _debug_logging, calls, log, pipeVars>>

NextSeries ==
    MatchRule \/ SkipRule \/ NoMatch \/ StartClassify \/ Reclassify \/ SetEnv

SpecSeries == InitSeries /\ [][NextSeries]_vars

(***************************************************************************)
(* DynamicBearerAuth.auth_flow, one activation per outbound request of     *)
(* _client.                                                                *)
(***************************************************************************)
HeaderPrefix == <<"B", "e", "a", "r", "e", "r", " ">>

\* a plausible slip: the scheme and the token run together
BearerNoSpace(api_key) == <<"B", "e", "a", "r", "e", "r">> \o api_key

\* f"Bearer {api_key}"
Bearer(api_key) == HeaderPrefix \o api_key

\* api_key[:8]
First8(k) == SubSeq(k, 1, IF Len(k) < 8 THEN Len(k) ELSE 8)
\* api_key[-4:]
Last4(k) == SubSeq(k, IF Len(k) < 4 THEN 1 ELSE Len(k) - 3, Len(k))

\* f"{api_key[:8]}...{api_key[-4:]}" if len(api_key) > 12 else "***"
masked_key(api_key) ==
    IF Len(api_key) > 12
    THEN First8(api_key) \o <<".", ".", ".">> \o Last4(api_key)
    ELSE <<"*", "*", "*">>

\* the text of the debug record
DebugText(request, api_key) ==
    <<"I", "n", "j", "e", "c", "t", "e", "d", " ">> \o HeaderPrefix
        \o <<"a", "u", "t", "h", " ", "f", "o", "r", " ">>
        \o <<request.method>> \o <<" ">> \o request.path
        \o <<" ", "(", "k", "e", "y", ":", " ">> \o masked_key(api_key) \o <<")">>

\* the requests the handlers send through _client
OutboundRequests ==
    {[method |-> "GET", path |-> Path_documents, body |-> ""],
     [method |-> "POST", path |-> Path_documents, body |-> "files"]}

\* headers of a request as _client builds it
DefaultHeaders == [accept |-> <<"*", "/", "*">>]

\* an assignment that replaces the header collection by the one header
SetHeaderReplacing(headers, h, v) == [x \in {h} |-> v]

\* the headers with header h set to value v
SetHeader(headers, h, v) ==
    [x \in DOMAIN headers \cup {h} |-> IF x = h THEN v ELSE headers[x]]

\* the state once the surface is built: the server serves requests
InitServing ==
    /\ route_maps = _route_maps
    /\ route = [method |-> "GET", path |-> Path_documents]
    /\ idx = 2
    /\ evaluated = {1, 2}
    /\ mcp_type = "RESOURCE"
    /\ surface = {[route |-> route, mcp_type |-> "RESOURCE"]}
    /\ cpc = "done"
    /\ runs = 1
    /\ prev_type = "NONE"
    /\ env_api_key \in EnvValues
    /\ _debug_logging \in BOOLEAN
    /\ calls = <<>>
    /\ log = <<>>
    /\ Serving
    /\ invocations = <<>>
    /\ PipesIdle

\* _client builds a request and starts the auth flow on it
SendRequest ==
    /\ Len(calls) < MaxRequests
    /\ \E r \in OutboundRequests :
          calls' = Append(calls,
                      [pc |-> "start",
                       api_key |-> <<>>,
                       yields |-> 0,
                       status |-> 0,
                       request |-> [method |-> r.method, path |-> r.path,
                                    body |-> r.body,
                                    headers |-> DefaultHeaders]])
    /\ UNCHANGED <<classVars, startVars, invocations,
                   env_api_key, _debug_logging, log, pipeVars>>

\* a provider that keeps the token of the first call for the later ones
ReadKeyCached(i) ==
    /\ calls[i].pc = "start"
    /\ calls' = [calls EXCEPT ![i].pc = "read",
                              ![i].api_key = IF i > 1 /\ calls[1].pc # "start"
                                             THEN calls[1].api_key
                                             ELSE env_api_key]
    /\ UNCHANGED <<classVars, startVars, invocations,
                   env_api_key, _debug_logging, log, pipeVars>>

\* api_key = os.getenv("R2R_API_KEY", "")
ReadKey(i) ==
    /\ calls[i].pc = "start"
    /\ calls' = [calls EXCEPT ![i].pc = "read", ![i].api_key = env_api_key]
    /\ UNCHANGED <<classVars, startVars, invocations,
                   env_api_key, _debug_logging, log, pipeVars>>

\* a provider that keeps the token in a field of the provider, which the
\* calls share: the header is written from the token of the latest call that
\* has read one
InjectSharedKey(i) ==
    /\ calls[i].pc = "read"
    /\ calls[i].api_key # <<>>
    /\ LET readers == {j \in 1..Len(calls) : calls[j].pc # "start"}
           latest == CHOOSE j \in readers : \A k \in readers : k <= j
       IN  calls' = [calls EXCEPT
                       ![i].pc = "ready",
                       ![i].request.headers =
                           SetHeader(@, "Authorization",
                                     Bearer(calls[latest].api_key))]
    /\ log' = IF _debug_logging
              THEN Append(log, [level |-> "DEBUG", call |-> i,
                                text |-> DebugText(calls[i].request, calls[i].api_key)])
              ELSE log
    /\ UNCHANGED <<classVars, startVars, invocations,
                   env_api_key, _debug_logging, pipeVars>>

\* if api_key: the header is set, and the debug record written when enabled
Inject(i) ==
    /\ calls[i].pc = "read"
    /\ calls[i].api_key # <<>>
    /\ calls' = [calls EXCEPT
                    ![i].pc = "ready",
                    ![i].request.headers =
                        SetHeader(@, "Authorization", Bearer(calls[i].api_key))]
    /\ log' = IF _debug_logging
              THEN Append(log, [level |-> "DEBUG", call |-> i,
                                text |-> DebugText(calls[i].request, calls[i].api_key)])
              ELSE log
    /\ UNCHANGED <<classVars, startVars, invocations,
                   env_api_key, _debug_logging, pipeVars>>

\* a provider that writes the header whether or not there is a token
WarnWithEmptyBearer(i) ==
    /\ calls[i].pc = "read"
    /\ calls[i].api_key = <<>>
    /\ calls' = [calls EXCEPT ![i].pc = "ready",
                              ![i].request.headers =
                                  SetHeader(@, "Authorization", Bearer(<<>>))]
    /\ log' = Append(log, [level |-> "WARNING", call |-> i,
                           text |-> <<"R", "2", "R", "_", "A", "P", "I", "_",
                                      "K", "E", "Y", " ", "n", "o", "t", " ",
                                      "s", "e", "t">>])
    /\ UNCHANGED <<classVars, startVars, invocations,
                   env_api_key, _debug_logging, pipeVars>>

\* else: the warning is written, the request is left as it is
Warn(i) ==
    /\ calls[i].pc = "read"
    /\ calls[i].api_key = <<>>
    /\ calls' = [calls EXCEPT ![i].pc = "ready"]
    /\ log' = Append(log, [level |-> "WARNING", call |-> i,
                           text |-> <<"R", "2", "R", "_", "A", "P", "I", "_", "K", "E", "Y",
                                      " ", "n", "o", "t", " ", "s", "e", "t">>])
    /\ UNCHANGED <<classVars, startVars, invocations,
                   env_api_key, _debug_logging, pipeVars>>

\* yield request
Yield(i) ==
    /\ calls[i].pc = "ready"
    /\ calls' = [calls EXCEPT ![i].pc = "yielded", ![i].yields = @ + 1]
    /\ UNCHANGED <<classVars, startVars, invocations,
                   env_api_key, _debug_logging, log, pipeVars>>

NextAuth ==
    \/ SendRequest
    \/ SetEnv
    \/ \E i \in 1..Len(calls) : ReadKey(i)
    \/ \E i \in 1..Len(calls) : Inject(i)
    \/ \E i \in 1..Len(calls) : Warn(i)
    \/ \E i \in 1..Len(calls) : Yield(i)

SpecAuth == InitServing /\ [][NextAuth]_vars

(***************************************************************************)
(* Claims about the route classifier.                                      *)
(***************************************************************************)
GET(path) == [method |-> "GET", path |-> path]
POST(path) == [method |-> "POST", path |-> path]

Mutating == {"POST", "PUT", "PATCH", "DELETE"}

\* the classifier has finished with the endpoint, under the bundled rule list
BundledDone == route_maps = _route_maps /\ cpc = "done"

\* C1: when classification ends, the endpoint has the role of the first rule,
\* in declared order, whose method set holds its method and whose pattern
\* matches its path; the rules after that one were never evaluated, and an
\* endpoint no rule matches has no role.
C1_FirstMatchWins ==
    cpc = "done" =>
        LET M == Matching(route_maps, route) IN
        IF M = {} THEN mcp_type = "NONE" /\ evaluated = 1..Len(route_maps)
        ELSE /\ mcp_type = route_maps[Min(M)].mcp_type
             /\ evaluated = 1..Min(M)

\* C1 witness: two rules of different roles match, the first one decided
C1_Witness ==
    /\ cpc = "done"
    /\ \E i, j \in Matching(route_maps, route) :
          /\ i < j
          /\ route_maps[i].mcp_type # route_maps[j].mcp_type
          /\ mcp_type = route_maps[i].mcp_type
          /\ Len(route_maps) > i

\* C2: under the bundled rule list GET /v3/documents/{id} is a
\* RESOURCE_TEMPLATE, GET /v3/documents a RESOURCE and POST /v3/documents a TOOL.
C2_NamedEndpoints ==
    BundledDone =>
        /\ route = GET(Path_documents_id) => mcp_type = "RESOURCE_TEMPLATE"
        /\ route = GET(Path_documents) => mcp_type = "RESOURCE"
        /\ route = POST(Path_documents) => mcp_type = "TOOL"

\* C2 witness: GET /v3/documents/{id} has been classified
C2_Witness ==
    /\ BundledDone
    /\ route = GET(Path_documents_id)
    /\ mcp_type = "RESOURCE_TEMPLATE"

\* C3 (as claimed): under the bundled rule list every GET endpoint whose path
\* holds a bracketed parameter, in whatever segment, is a RESOURCE_TEMPLATE.
C3_GetWithParamIsTemplate ==
    (BundledDone /\ route.method = "GET" /\ HasPathParam(route.path))
        => mcp_type = "RESOURCE_TEMPLATE"

\* C4 (as claimed): under the bundled rule list every GET endpoint that tier 1
\* does not classify is a RESOURCE, whatever its path.
C4_OtherGetIsResource ==
    (BundledDone /\ route.method = "GET" /\ mcp_type # "RESOURCE_TEMPLATE")
        => mcp_type = "RESOURCE"

\* C5: under the bundled rule list every POST, PUT, PATCH or DELETE endpoint
\* is a TOOL, whatever its path.
C5_MutationsAreTools ==
    (BundledDone /\ route.method \in Mutating) => mcp_type = "TOOL"

\* C5 witness: a mutation of a path outside /v3/ that holds a parameter
C5_Witness ==
    /\ BundledDone
    /\ route.method = "DELETE"
    /\ HasPathParam(route.path)
    /\ ~UnderV3(route.path)
    /\ mcp_type = "TOOL"

\* C6: an endpoint that no rule of the list matches ends without a role, and
\* nothing is generated for it; whatever is generated carries the role of a
\* rule that matches the endpoint.
C6_UnmatchedIsNotExposed ==
    /\ (cpc = "done" /\ Matching(route_maps, route) = {})
          => (mcp_type = "NONE" /\ surface = {})
    /\ \A c \in surface :
          \E i \in Matching(route_maps, c.route) : c.mcp_type = route_maps[i].mcp_type

\* C6 witness: a GET outside /v3/ went through the whole bundled list
C6_Witness ==
    /\ BundledDone
    /\ route.method = "GET"
    /\ Matching(route_maps, route) = {}
    /\ evaluated = 1..Len(route_maps)
    /\ surface = {}

\* the rules overlap: some endpoint matches both, by method and by pattern
RulesOverlap(a, b) ==
    \E e \in Endpoints : RuleMatches(a, e) /\ RuleMatches(b, e)

\* C7 (as claimed): for any two rules of the list that overlap and have
\* different roles, swapping them changes the classification of some endpoint
\* that matches both.
C7_AnySwapChangesSomething ==
    \A i, j \in 1..Len(route_maps) :
        (i < j /\ route_maps[i].mcp_type # route_maps[j].mcp_type
               /\ RulesOverlap(route_maps[i], route_maps[j]))
        => \E e \in Endpoints :
              /\ RuleMatches(route_maps[i], e) /\ RuleMatches(route_maps[j], e)
              /\ classify(Swap(route_maps, i, j), e) # classify(route_maps, e)

\* C7 (amended): when two rules of different roles both match the endpoint and
\* no rule before them does, swapping them changes the endpoint's role; in the
\* bundled list, swapping tier 1 and tier 2 changes the role of every GET path
\* under /v3/ that holds a bracketed parameter.
C7_SwapOfFirstMatchChangesRole ==
    cpc = "done" =>
        /\ \A j \in Matching(route_maps, route) :
              (mcp_type # route_maps[j].mcp_type)
              => classify(Swap(route_maps, Min(Matching(route_maps, route)), j), route)
                     # mcp_type
        /\ (route_maps = _route_maps /\ route.method = "GET"
                /\ UnderV3(route.path) /\ HasPathParam(route.path))
              => /\ mcp_type = "RESOURCE_TEMPLATE"
                 /\ classify(Swap(route_maps, 1, 2), route) = "RESOURCE"

\* C7 witness: GET /v3/documents/{id} changes role when tiers 1 and 2 swap
C7_Witness ==
    /\ BundledDone
    /\ route = GET(Path_documents_id)
    /\ mcp_type = "RESOURCE_TEMPLATE"
    /\ classify(Swap(route_maps, 1, 2), route) = "RESOURCE"

\* the pattern of tier 1 without its anchors
Tier1Body == SubSeq(Tier1.pattern, 2, Len(Tier1.pattern) - 1)

C8_RuleListFrozen == [][route_maps' = route_maps]_vars

C10_BearerHeader ==
    \A i \in 1..Len(calls) :
        (calls[i].pc = "yielded" /\ calls[i].api_key # <<>>)
        => /\ "Authorization" \in DOMAIN calls[i].request.headers
           /\ calls[i].request.headers["Authorization"]
                 = <<"B", "e", "a", "r", "e", "r", " ">> \o calls[i].api_key
           /\ calls[i].api_key \in Tokens

\* the token a call uses is the value of R2R_API_KEY when the call reads it
C10_ReadsEnvironment ==
    [][\A i \in 1..Len(calls) :
          (calls[i].pc = "start" /\ calls'[i].pc = "read")
          => calls'[i].api_key = env_api_key]_vars

\* C10 witness: two requests were yielded, each with the token of its moment
C10_Witness ==
    /\ Len(calls) >= 2
    /\ calls[1].pc = "yielded"
    /\ calls[2].pc = "yielded"
    /\ calls[1].api_key = Token12
    /\ calls[2].api_key = Token14
    /\ calls[1].request.headers = SetHeader(DefaultHeaders, "Authorization",
                                            HeaderPrefix \o Token12)
    /\ calls[2].request.headers = SetHeader(DefaultHeaders, "Authorization",
                                            HeaderPrefix \o Token14)

\* C11: the token is resolved when auth_flow runs: the call reads the value
\* R2R_API_KEY has at that step, whatever the environment held before, and
\* the header it then writes is "Bearer " followed by the value it read.
C11_ResolvedAtRequestTime ==
    [][\A i \in 1..Len(calls) :
          /\ (calls[i].pc = "start" /\ calls'[i].pc = "read")
             => calls'[i].api_key = env_api_key
          /\ (calls[i].pc = "read" /\ calls'[i].pc = "ready"
                 /\ calls[i].api_key # <<>>)
             => /\ "Authorization" \in DOMAIN calls'[i].request.headers
                /\ calls'[i].request.headers["Authorization"]
                      = HeaderPrefix \o calls[i].api_key]_vars

\* C11 witness: the first call ran while the token was unset and was yielded
\* without a header, the token was set afterwards and the second call of the
\* same provider carries it
C11_Witness ==
    /\ Len(calls) >= 2
    /\ calls[1].pc = "yielded"
    /\ calls[2].pc = "yielded"
    /\ calls[1].api_key = <<>>
    /\ calls[1].request.headers = DefaultHeaders
    /\ calls[2].api_key = Token14
    /\ env_api_key = Token14
    /\ calls[2].request.headers = SetHeader(DefaultHeaders, "Authorization",
                                            HeaderPrefix \o Token14)

\* the log records of level lv that call i wrote
LogOf(i, lv) == {k \in 1..Len(log) : log[k].call = i /\ log[k].level = lv}

\* C12: a call that read an unset or empty R2R_API_KEY and went on carries
\* no Authorization header in the request it yields, and the log holds
\* exactly one warning of that call (and no debug record of it).
C12_NoTokenNoHeaderOneWarning ==
    \A i \in 1..Len(calls) :
        (calls[i].pc \in {"ready", "yielded"} /\ calls[i].api_key = <<>>)
        => /\ "Authorization" \notin DOMAIN calls[i].request.headers
           /\ Cardinality(LogOf(i, "WARNING")) = 1
           /\ LogOf(i, "DEBUG") = {}

\* C12 witness: with the token unset a request was yielded without the
\* header and the log is the one warning of that call
C12_Witness ==
    /\ Len(calls) = 1
    /\ env_api_key = <<>>
    /\ calls[1].pc = "yielded"
    /\ calls[1].api_key = <<>>
    /\ DOMAIN calls[1].request.headers = {"accept"}
    /\ Len(log) = 1
    /\ log[1].level = "WARNING"
    /\ log[1].call = 1

\* t occurs in text as a run of consecutive characters
Contains(text, t) ==
    \E k \in 0..(Len(text) - Len(t)) : SubSeq(text, k + 1, k + Len(t)) = t

\* C13: no debug record of auth_flow contains the literal token that the
\* call read, whatever the token is.
C13_NeverFullToken ==
    \A k \in 1..Len(log) :
        log[k].level = "DEBUG"
        => ~Contains(log[k].text, calls[log[k].call].api_key)

\* the debug record shows a token of more than 12 characters as its first 8
\* characters, three dots and its last 4 characters, a shorter one as "***"
C13_MaskedForm ==
    \A k \in 1..Len(log) :
        log[k].level = "DEBUG"
        => LET key == calls[log[k].call].api_key
               shown == IF Len(key) > 12
                        THEN SubSeq(key, 1, 8) \o <<".", ".", ".">>
                                 \o SubSeq(key, Len(key) - 3, Len(key))
                        ELSE <<"*", "*", "*">>
           IN  Contains(log[k].text, <<":", " ">> \o shown \o <<")">>)

\* C14: a step of an auth_flow call leaves the method, the path, the body and
\* every header other than Authorization of its request as they were, adds no
\* header other than Authorization, leaves the environment, the debug flag,
\* the rule list with the generated surface and every other call unchanged,
\* and only appends to the log.
C14_Frame ==
    [][\A i \in 1..Len(calls) :
          calls'[i].pc # calls[i].pc
          => /\ calls'[i].request.method = calls[i].request.method
             /\ calls'[i].request.path = calls[i].request.path
             /\ calls'[i].request.body = calls[i].request.body
             /\ \A h \in DOMAIN calls[i].request.headers \ {"Authorization"} :
                   /\ h \in DOMAIN calls'[i].request.headers
                   /\ calls'[i].request.headers[h] = calls[i].request.headers[h]
             /\ DOMAIN calls'[i].request.headers
                   \subseteq DOMAIN calls[i].request.headers \cup {"Authorization"}
             /\ env_api_key' = env_api_key
             /\ _debug_logging' = _debug_logging
             /\ classVars' = classVars
             /\ Len(calls') = Len(calls)
             /\ \A j \in 1..Len(calls) : j # i => calls'[j] = calls[j]
             /\ Len(log') >= Len(log)
             /\ SubSeq(log', 1, Len(log)) = log]_vars

\* C14 witness: a POST with a body got its header and a debug record; its
\* method, path, body and accept header are those it was built with
C14_Witness ==
    /\ Len(calls) = 1
    /\ calls[1].pc = "ready"
    /\ calls[1].request.method = "POST"
    /\ calls[1].request.path = Path_documents
    /\ calls[1].request.body = "files"
    /\ DOMAIN calls[1].request.headers = {"accept", "Authorization"}
    /\ calls[1].request.headers["accept"] = DefaultHeaders["accept"]
    /\ Len(log) = 1
    /\ log[1].level = "DEBUG"

\* C20: under every interleaving of calls and environment changes, the token
\* of a call is the value R2R_API_KEY has at the step of that call which reads
\* it and stays the call's own from then on; a request that is yielded has
\* either no Authorization header or "Bearer " followed by that token; and a
\* step of one call changes neither another call's record nor the environment.
C20_ConcurrentCalls ==
    [][\A i \in 1..Len(calls) :
          /\ (calls[i].pc = "start" /\ calls'[i].pc = "read")
             => calls'[i].api_key = env_api_key
          /\ calls[i].pc # "start" => calls'[i].api_key = calls[i].api_key
          /\ calls'[i].pc = "yielded"
             => IF calls'[i].api_key = <<>>
                THEN "Authorization" \notin DOMAIN calls'[i].request.headers
                ELSE /\ "Authorization" \in DOMAIN calls'[i].request.headers
                     /\ calls'[i].request.headers["Authorization"]
                           = HeaderPrefix \o calls'[i].api_key
          /\ calls'[i].pc # calls[i].pc
             => /\ env_api_key' = env_api_key
                /\ \A j \in 1..Len(calls) : j # i => calls'[j] = calls[j]]_vars

\* C20 witness: two calls overlap: the first read one token and has not yet
\* written its header, the token was changed, the second call read the new
\* token and was yielded with it, and the token was removed afterwards
C20_Witness ==
    /\ Len(calls) = 2
    /\ calls[1].pc = "read"
    /\ calls[1].api_key = Token12
    /\ calls[2].pc = "yielded"
    /\ calls[2].api_key = Token14
    /\ calls[2].request.headers = SetHeader(DefaultHeaders, "Authorization",
                                            HeaderPrefix \o Token14)
    /\ env_api_key = <<>>

(***************************************************************************)
(* Startup: the statements that server.py executes when it is loaded, in   *)
(* the order of the file.                                                  *)
(***************************************************************************)
\* an order in which the document is fetched before the rule list and the
\* client are built
ModuleOrderFetchFirst == <<"fetch", "route_maps", "client", "generate", "run">>

\* the sections of server.py in the order of the file: _route_maps, _client,
\* the fetch of the document, FastMCP.from_openapi, mcp.run()
ModuleOrder == <<"route_maps", "client", "fetch", "generate", "run">>

\* the section executed after section sec
After(sec) ==
    LET k == CHOOSE n \in 1..Len(ModuleOrder) : ModuleOrder[n] = sec
    IN  IF k < Len(ModuleOrder) THEN ModuleOrder[k + 1] ELSE "end"

\* str(e) of the exception raised by httpx.get(...).raise_for_status()
ExcText(error, url) ==
    CASE error = "ConnectError" -> "[Errno 111] Connection refused"
      [] error = "ReadTimeout" -> "The read operation timed out"
      [] OTHER -> "Server error '503 Service Unavailable' for url '" \o url \o "'"

\* the test that lets a parsed body pass as an OpenAPI document
IsValidSpecAnyMapping(a) == a.is_dict

\* isinstance(_openapi_spec, dict) and "openapi" in _openapi_spec
IsValidSpec(a) == a.is_dict /\ "openapi" \in a.keys

ErrorRecord(text) == [level |-> "ERROR", call |-> 0, text |-> text]

InitStartup ==
    /\ route_maps = <<>>
    /\ route = [method |-> "GET", path |-> Path_documents]
    /\ idx = 1
    /\ evaluated = {}
    /\ mcp_type = "NONE"
    /\ surface = {}
    /\ cpc = "scan"
    /\ runs = 1
    /\ prev_type = "NONE"
    /\ AuthIdle
    /\ boot \in Boots
    /\ spc = ModuleOrder[1]
    /\ events = <<>>
    /\ _client = "none"
    /\ startup_error = ""
    /\ invocations = <<>>
    /\ PipesIdle

\* _route_maps = [RouteMap(...), RouteMap(...), RouteMap(...)]
BuildRouteMaps ==
    /\ spc = "route_maps"
    /\ route_maps' = _route_maps
    /\ events' = Append(events, "route_maps")
    /\ spc' = After("route_maps")
    /\ UNCHANGED <<route, idx, evaluated, mcp_type, surface, cpc, runs,
                   prev_type, authVars, boot, _client, startup_error,
                   invocations, pipeVars>>

\* _client = httpx.AsyncClient(base_url=..., auth=DynamicBearerAuth(), ...)
BuildClient ==
    /\ spc = "client"
    /\ _client' = "open"
    /\ events' = Append(events, "client")
    /\ spc' = After("client")
    /\ UNCHANGED <<classVars, authVars, boot, startup_error, invocations, pipeVars>>

\* httpx.get or raise_for_status raises an httpx.HTTPError: the error is
\* logged and RuntimeError is raised; nothing looks for a local copy
FetchFails ==
    /\ spc = "fetch"
    /\ boot.answer.error \in HTTPErrors
    /\ events' = Append(events, "fetch")
    /\ log' = Append(log, ErrorRecord(
                  "Failed to fetch OpenAPI spec from " \o _r2r_openapi_url
                      \o ": " \o ExcText(boot.answer.error, _r2r_openapi_url)))
    /\ startup_error' =
           "Could not connect to R2R API. Please verify R2R_BASE_URL="
               \o _r2r_base_url \o " is correct and the server is running."
    /\ spc' = "failed"
    /\ UNCHANGED <<classVars, env_api_key, _debug_logging, calls, boot,
                   _client, invocations, pipeVars>>

\* the body is not JSON (json() raises a ValueError) or fails the test of
\* the structure: the error is logged and RuntimeError is raised
SpecInvalid ==
    /\ spc = "fetch"
    /\ boot.answer.error = ""
    /\ ~boot.answer.is_json \/ ~IsValidSpec(boot.answer)
    /\ events' = Append(events, "fetch")
    /\ log' = Append(log, ErrorRecord(
                  "Invalid OpenAPI specification format: "
                      \o (IF boot.answer.is_json
                          THEN "Invalid OpenAPI specification format"
                          ELSE "Expecting value: line 1 column 1 (char 0)")))
    /\ startup_error' =
           "Received invalid OpenAPI specification from " \o _r2r_openapi_url
               \o ". Please verify the API is returning a valid OpenAPI 3.0/3.1 spec."
    /\ spc' = "failed"
    /\ UNCHANGED <<classVars, env_api_key, _debug_logging, calls, boot,
                   _client, invocations, pipeVars>>

\* the document passes the test but its "info" entry is not a mapping:
\* .get("info", {}).get("title", ...) raises AttributeError, which neither
\* except clause catches
SpecInfoBroken ==
    /\ spc = "fetch"
    /\ boot.answer.error = ""
    /\ boot.answer.is_json
    /\ IsValidSpec(boot.answer)
    /\ "info" \in boot.answer.keys
    /\ ~boot.answer.info_is_dict
    /\ events' = Append(events, "fetch")
    /\ startup_error' = "AttributeError: 'str' object has no attribute 'get'"
    /\ spc' = "failed"
    /\ UNCHANGED <<classVars, authVars, boot, _client, invocations, pipeVars>>

\* the document is fetched, parsed and passes the test
SpecLoaded ==
    /\ spc = "fetch"
    /\ boot.answer.error = ""
    /\ boot.answer.is_json
    /\ IsValidSpec(boot.answer)
    /\ "info" \in boot.answer.keys => boot.answer.info_is_dict
    /\ events' = Append(events, "fetch")
    /\ spc' = After("fetch")
    /\ UNCHANGED <<classVars, authVars, boot, _client, startup_error,
                   invocations, pipeVars>>

\* mcp = FastMCP.from_openapi(openapi_spec, client, route_maps) returns
FromOpenapi ==
    /\ spc = "generate"
    /\ boot.generator_ok
    /\ events' = Append(events, "from_openapi")
    /\ spc' = After("generate")
    /\ UNCHANGED <<classVars, authVars, boot, _client, startup_error,
                   invocations, pipeVars>>

\* FastMCP.from_openapi raises: the error is logged, RuntimeError is raised
GeneratorFails ==
    /\ spc = "generate"
    /\ ~boot.generator_ok
    /\ events' = Append(events, "from_openapi")
    /\ log' = Append(log, ErrorRecord(
                  "Failed to initialize FastMCP server: generator error"))
    /\ startup_error' =
           "Could not create MCP server from OpenAPI spec. Error: "
               \o "Exception: generator error"
    /\ spc' = "failed"
    /\ UNCHANGED <<classVars, env_api_key, _debug_logging, calls, boot,
                   _client, invocations, pipeVars>>

\* if __name__ == "__main__": mcp.run()
Run ==
    /\ spc = "run"
    /\ boot.as_main
    /\ events' = Append(events, "run")
    /\ spc' = "serving"
    /\ UNCHANGED <<classVars, authVars, boot, _client, startup_error,
                   invocations, pipeVars>>

\* the module was imported: mcp exists, nothing is served by this file
ImportOnly ==
    /\ spc = "run"
    /\ ~boot.as_main
    /\ spc' = "imported"
    /\ UNCHANGED <<classVars, authVars, boot, events, _client, startup_error,
                   invocations, pipeVars>>

NextStartup ==
    \/ BuildRouteMaps
    \/ BuildClient
    \/ FetchFails
    \/ SpecInvalid
    \/ SpecInfoBroken
    \/ SpecLoaded
    \/ FromOpenapi
    \/ GeneratorFails
    \/ Run
    \/ ImportOnly

SpecStartup == InitStartup /\ [][NextStartup]_vars

\* the events of the start are a prefix of sequence order
EventsFollow(order) ==
    /\ Len(events) <= Len(order)
    /\ events = SubSeq(order, 1, Len(events))

\* event e has happened
Happened(e) == \E k \in 1..Len(events) : events[k] = e

(***************************************************************************)
(* Claims about the start of the server.                                   *)
(***************************************************************************)
\* C15: when the fetch of the document fails with a transport error and a
\* local copy of the document is present, the start does not fail.
C15_FallsBackToLocalCopy ==
    (boot.answer.error \in TransportErrors /\ boot.local_copy)
    => spc # "failed"

\* C16: when the start fails because the spec URL is unreachable and there is
\* no local copy, the message of the failure names the spec URL (for the
\* default spec URL, base URL + "/openapi.json", naming the base URL counts).
C16_FailureNamesSpecUrl ==
    (spc = "failed" /\ boot.answer.error \in TransportErrors
        /\ ~boot.local_copy)
    => /\ startup_error # ""
       /\ \/ Contains(startup_error, _r2r_openapi_url)
          \/ /\ boot.R2R_OPENAPI_URL = ""
             /\ Contains(startup_error, _r2r_base_url)

\* a start that fails on an exception of the fetch has logged one error
\* record, and that record names the spec URL
C16_ErrorRecordNamesSpecUrl ==
    (spc = "failed" /\ boot.answer.error \in HTTPErrors)
    => /\ Len(log) = 1
       /\ log[1].level = "ERROR"
       /\ Contains(log[1].text, _r2r_openapi_url)
       /\ startup_error # ""

\* C17: when the spec URL answers with a body that is not JSON, is not a
\* mapping or has no "openapi" key, FastMCP.from_openapi is never invoked,
\* nothing is served, and once the fetch has happened the start has failed
\* with an error message.
C17_InvalidSpecIsFatal ==
    (/\ boot.answer.error = ""
     /\ \/ ~boot.answer.is_json
        \/ ~boot.answer.is_dict
        \/ "openapi" \notin boot.answer.keys)
    => /\ ~Happened("from_openapi")
       /\ ~Happened("run")
       /\ spc \notin {"generate", "run", "serving", "imported"}
       /\ Happened("fetch") => (spc = "failed" /\ startup_error # "")

\* C17 witness: the spec URL answered with a mapping without "openapi"; the
\* start failed after the fetch, naming the spec URL
C17_Witness ==
    /\ boot.answer = Answer("", TRUE, TRUE, {"info", "paths"}, TRUE)
    /\ boot.R2R_OPENAPI_URL # ""
    /\ spc = "failed"
    /\ events = <<"route_maps", "client", "fetch">>
    /\ Contains(startup_error, "Received invalid OpenAPI specification from "
                                   \o boot.R2R_OPENAPI_URL)

\* C18, as claimed: the document is fetched first, then the rule list is
\* built, then the client, then the generator is called, then the surface
\* is served.
C18_FetchFirst ==
    EventsFollow(<<"fetch", "route_maps", "client", "from_openapi", "run">>)

\* C18, amended: the rule list is built first, then the client, then the
\* document is fetched, then the generator is called with all three, and
\* only then is the surface served.
C18_StartupOrder ==
    EventsFollow(<<"route_maps", "client", "fetch", "from_openapi", "run">>)

\* C18 witness: a start that reached mcp.run()
C18_Witness ==
    /\ spc = "serving"
    /\ Len(events) = 5
    /\ events[3] = "fetch"
    /\ events[5] = "run"
    /\ route_maps = _route_maps
    /\ _client = "open"

(***************************************************************************)
(* The handlers of server.py that send a request through _client, one      *)
(* activation per incoming request; activations interleave at their awaits.*)
(***************************************************************************)
\* the handlers whose ctx parameter is always supplied
ContextRequired == {"get_document_resource", "get_collection_summary"}
\* the handlers whose ctx parameter defaults to None
ContextOptional ==
    {"search_knowledge_base", "enhanced_search", "analyze_search_results"}
Handlers == ContextRequired \cup ContextOptional

\* the outbound requests a handler sends when none fails
RequestsOf(handler) == IF handler = "get_collection_summary" THEN 2 ELSE 1

\* what a handler does with an httpx.HTTPError of its request
OnHTTPError(handler) ==
    IF handler \in {"enhanced_search", "analyze_search_results"}
    THEN "raised"
    ELSE "error_dict"

\* the activations that have ended
Ended(i) == invocations[i].pc \in {"done", "replied"}

InitHandlers ==
    /\ route_maps = _route_maps
    /\ route = [method |-> "GET", path |-> Path_documents]
    /\ idx = 2
    /\ evaluated = {1, 2}
    /\ mcp_type = "RESOURCE"
    /\ surface = {[route |-> route, mcp_type |-> "RESOURCE"]}
    /\ cpc = "done"
    /\ runs = 1
    /\ prev_type = "NONE"
    /\ AuthIdle
    /\ Serving
    /\ invocations = <<>>
    /\ PipesIdle

\* a request of an MCP client reaches a handler
Invoke ==
    /\ Len(invocations) < MaxInvocations
    /\ \E h \in Handlers : \E c \in BOOLEAN :
          /\ h \in ContextRequired => c
          /\ invocations' = Append(invocations,
                [handler |-> h, ctx |-> c, pc |-> "start", sent |-> 0,
                 failure |-> "", outcome |-> "", reply |-> "",
                 failures_before |->
                     Cardinality({j \in 1..Len(invocations) :
                                     Ended(j) /\ invocations[j].failure # ""})])
    /\ UNCHANGED <<classVars, authVars, startVars, pipeVars>>

\* analyze_search_results without a context returns an error mapping
NoContext(i) ==
    /\ invocations[i].pc = "start"
    /\ invocations[i].handler = "analyze_search_results"
    /\ ~invocations[i].ctx
    /\ invocations' = [invocations EXCEPT ![i].pc = "done",
                                          ![i].outcome = "error_dict"]
    /\ UNCHANGED <<classVars, authVars, startVars, pipeVars>>

\* await _client.get/post(...) answers, raise_for_status() passes and
\* json() parses: the handler goes on, or returns its result
RequestOk(i) ==
    /\ invocations[i].pc = "start"
    /\ invocations[i].handler = "analyze_search_results" => invocations[i].ctx
    /\ _client = "open"
    /\ invocations' =
          IF invocations[i].sent + 1 < RequestsOf(invocations[i].handler)
          THEN [invocations EXCEPT ![i].sent = @ + 1]
          ELSE [invocations EXCEPT ![i].sent = @ + 1, ![i].pc = "done",
                                   ![i].outcome = "result"]
    /\ UNCHANGED <<classVars, authVars, startVars, pipeVars>>

\* a handler that uses the shared client as a context manager: the failure
\* leaves the client closed
RequestFailsClosingClient(i) ==
    /\ invocations[i].pc = "start"
    /\ invocations[i].handler = "analyze_search_results" => invocations[i].ctx
    /\ invocations' = [invocations EXCEPT
                          ![i].sent = @ + 1,
                          ![i].failure = "HTTPError",
                          ![i].pc = "done",
                          ![i].outcome = OnHTTPError(invocations[i].handler)]
    /\ _client' = "closed"
    /\ UNCHANGED <<classVars, authVars, boot, spc, events, startup_error, pipeVars>>

\* the request raises an httpx.HTTPError (no connection, timeout, or a status
\* that raise_for_status() rejects): the except clause of the handler runs
RequestFails(i) ==
    /\ invocations[i].pc = "start"
    /\ invocations[i].handler = "analyze_search_results" => invocations[i].ctx
    /\ invocations' = [invocations EXCEPT
                          ![i].sent = @ + 1,
                          ![i].failure = "HTTPError",
                          ![i].pc = "done",
                          ![i].outcome = OnHTTPError(invocations[i].handler)]
    /\ UNCHANGED <<classVars, authVars, startVars, pipeVars>>

\* the answer is not JSON: json() raises a ValueError, which no handler but
\* analyze_search_results catches, and that one raises it again
BodyNotJson(i) ==
    /\ invocations[i].pc = "start"
    /\ invocations[i].handler = "analyze_search_results" => invocations[i].ctx
    /\ _client = "open"
    /\ invocations' = [invocations EXCEPT ![i].sent = @ + 1,
                                          ![i].failure = "ValueError",
                                          ![i].pc = "done",
                                          ![i].outcome = "raised"]
    /\ UNCHANGED <<classVars, authVars, startVars, pipeVars>>

\* the framework answers the caller: the returned value, or an error for an
\* exception; the server goes on serving
Respond(i) ==
    /\ invocations[i].pc = "done"
    /\ invocations' = [invocations EXCEPT
                          ![i].pc = "replied",
                          ![i].reply = IF invocations[i].outcome = "raised"
                                       THEN "error"
                                       ELSE invocations[i].outcome]
    /\ UNCHANGED <<classVars, authVars, startVars, pipeVars>>

NextHandlers ==
    \/ Invoke
    \/ \E i \in 1..Len(invocations) : NoContext(i)
    \/ \E i \in 1..Len(invocations) : RequestOk(i)
    \/ \E i \in 1..Len(invocations) : RequestFails(i)
    \/ \E i \in 1..Len(invocations) : BodyNotJson(i)
    \/ \E i \in 1..Len(invocations) : Respond(i)

SpecHandlers == InitHandlers /\ [][NextHandlers]_vars

(***************************************************************************)
(* Claims about the running server.                                        *)
(***************************************************************************)
\* C19: an activation whose outbound request failed ends with the failure
\* handed to its caller (an error mapping or an exception, answered as such),
\* an activation whose own requests did not fail returns its result whatever
\* happened to the others, and the shared client stays open and the server
\* serving, so that later requests can be served.
C19_FailureEndsOnlyItsRequest ==
    /\ _client = "open"
    /\ spc = "serving"
    /\ \A i \in 1..Len(invocations) :
          LET inv == invocations[i] IN
          /\ (Ended(i) /\ inv.failure # "")
             => /\ inv.outcome \in {"error_dict", "raised"}
                /\ inv.outcome = "error_dict"
                      <=> /\ inv.failure = "HTTPError"
                          /\ inv.handler \in {"get_document_resource",
                                               "get_collection_summary",
                                               "search_knowledge_base"}
                /\ inv.sent <= RequestsOf(inv.handler)
          /\ (inv.pc = "replied" /\ inv.failure # "")
             => inv.reply \in {"error_dict", "error"}
          /\ (Ended(i) /\ inv.failure = ""
                 /\ (inv.handler = "analyze_search_results" => inv.ctx))
             => /\ inv.outcome = "result"
                /\ inv.sent = RequestsOf(inv.handler)

\* C19 witness: the search of enhanced_search failed and its caller got the
\* error; a request that came in after that failure was served
C19_Witness ==
    /\ Len(invocations) = 2
    /\ invocations[1].handler = "enhanced_search"
    /\ invocations[1].failure = "HTTPError"
    /\ invocations[1].pc = "replied"
    /\ invocations[1].reply = "error"
    /\ invocations[2].handler = "get_collection_summary"
    /\ invocations[2].failures_before = 1
    /\ invocations[2].pc = "replied"
    /\ invocations[2].reply = "result"

(***************************************************************************)
(* The end of an auth_flow activation: the client sends the yielded        *)
(* request and resumes the generator with the response.                    *)
(***************************************************************************)
\* status codes of the responses of the R2R API
Statuses == {200, 401, 403}

\* a provider that answers a 401 or 403 by reading the token and yielding
\* the request again
ReceiveRetrying(i) ==
    /\ calls[i].pc = "yielded"
    /\ \E st \in Statuses :
          calls' = [calls EXCEPT ![i].status = st,
                                 ![i].pc = IF st \in {401, 403} /\ calls[i].yields < 2
                                           THEN "start"
                                           ELSE "finished"]
    /\ UNCHANGED <<classVars, startVars, invocations,
                   env_api_key, _debug_logging, log, pipeVars>>

\* the generator is resumed with the response: no statement follows the
\* yield, so the activation ends whatever the status is
Receive(i) ==
    /\ calls[i].pc = "yielded"
    /\ \E st \in Statuses :
          calls' = [calls EXCEPT ![i].status = st, ![i].pc = "finished"]
    /\ UNCHANGED <<classVars, startVars, invocations,
                   env_api_key, _debug_logging, log, pipeVars>>

NextRetry ==
    \/ SendRequest
    \/ \E i \in 1..Len(calls) : ReadKey(i)
    \/ \E i \in 1..Len(calls) : Inject(i)
    \/ \E i \in 1..Len(calls) : Warn(i)
    \/ \E i \in 1..Len(calls) : Yield(i)
    \/ \E i \in 1..Len(calls) : Receive(i)

SpecRetry == InitServing /\ [][NextRetry]_vars

(***************************************************************************)
(* Claims about retries.                                                   *)
(***************************************************************************)
\* C21: an auth_flow activation yields its request at most once, exactly once
\* when it has reached its yield, and a response of any status, 401 and 403
\* included, ends it without another yield.
C21_NoRetry ==
    \A i \in 1..Len(calls) :
        /\ calls[i].yields <= 1
        /\ calls[i].pc \in {"yielded", "finished"} <=> calls[i].yields = 1
        /\ calls[i].pc = "finished" <=> calls[i].status \in Statuses

\* a handler sends each of its requests at most once per activation, and a
\* request that failed is the last one the activation sends
C21_HandlersSendOnce ==
    \A i \in 1..Len(invocations) :
        /\ invocations[i].sent <= RequestsOf(invocations[i].handler)
        /\ invocations[i].failure # "" => Ended(i)
        /\ Ended(i) => invocations[i].pc \in {"done", "replied"}

\* C21 witness: one request was answered 401 and one 403; each was yielded
\* once and its activation is over
C21_Witness ==
    /\ Len(calls) = 2
    /\ calls[1].pc = "finished"
    /\ calls[1].status = 401
    /\ calls[1].yields = 1
    /\ calls[2].pc = "finished"
    /\ calls[2].status = 403
    /\ calls[2].yields = 1

(***************************************************************************)
(* Pipeline (src/src/pipelines.py): steps are added, then execute() runs   *)
(* them.  A step function is represented by what it does when called: it   *)
(* returns a value of its own, or raises.                                  *)
(***************************************************************************)
StepNames == {"search", "analyze", "summarize"}

\* the value the function of the k-th step returns
ResultOf(k) == [by |-> k]

\* a dict without entries
EmptyDict == [x \in {} |-> 0]

\* d[k] = v
SetItem(d, k, v) == [x \in DOMAIN d \cup {k} |-> IF x = k THEN v ELSE d[x]]

\* Pipeline(ctx): self.steps = [], self.results = {}
InitPipeline ==
    /\ route_maps = _route_maps
    /\ route = [method |-> "GET", path |-> Path_documents]
    /\ idx = 2
    /\ evaluated = {1, 2}
    /\ mcp_type = "RESOURCE"
    /\ surface = {[route |-> route, mcp_type |-> "RESOURCE"]}
    /\ cpc = "done"
    /\ runs = 1
    /\ prev_type = "NONE"
    /\ AuthIdle
    /\ Serving
    /\ invocations = <<>>
    /\ pipeline = [kind |-> "Pipeline", steps |-> <<>>, results |-> EmptyDict,
                   pc |-> "build", idx |-> 0, called |-> <<>>]

\* pipeline.add_step(name, func, **kwargs)
add_step ==
    /\ pipeline.kind = "Pipeline"
    /\ pipeline.pc = "build"
    /\ Len(pipeline.steps) < MaxSteps
    /\ \E name \in StepNames : \E raises \in BOOLEAN :
          pipeline' = [pipeline EXCEPT
                          !.steps = Append(@, [name |-> name,
                                               raises |-> raises])]
    /\ UNCHANGED <<classVars, authVars, startVars, invocations>>

\* await pipeline.execute(): the loop over self.steps begins
execute ==
    /\ pipeline.kind = "Pipeline"
    /\ pipeline.pc = "build"
    /\ pipeline' = [pipeline EXCEPT !.pc = "run", !.idx = 1]
    /\ UNCHANGED <<classVars, authVars, startVars, invocations>>

\* an execute() whose except clause goes on with the next step
StepRaisesAndContinues ==
    /\ pipeline.kind = "Pipeline"
    /\ pipeline.pc = "run"
    /\ pipeline.idx <= Len(pipeline.steps)
    /\ pipeline.steps[pipeline.idx].raises
    /\ pipeline' = [pipeline EXCEPT
                        !.called = Append(@, [step |-> pipeline.idx,
                                              previous_results |-> pipeline.results]),
                        !.idx = @ + 1]
    /\ UNCHANGED <<classVars, authVars, startVars, invocations>>

\* result = await func(previous_results=self.results, ...) raises: the
\* except clause reports the error and raises it again
StepRaises ==
    /\ pipeline.kind = "Pipeline"
    /\ pipeline.pc = "run"
    /\ pipeline.idx <= Len(pipeline.steps)
    /\ pipeline.steps[pipeline.idx].raises
    /\ pipeline' = [pipeline EXCEPT
                        !.called = Append(@, [step |-> pipeline.idx,
                                              previous_results |-> pipeline.results]),
                        !.pc = "raised"]
    /\ UNCHANGED <<classVars, authVars, startVars, invocations>>

\* an execute() that keeps only the result of the latest step
StepReturnsKeepingLast ==
    /\ pipeline.kind = "Pipeline"
    /\ pipeline.pc = "run"
    /\ pipeline.idx <= Len(pipeline.steps)
    /\ ~pipeline.steps[pipeline.idx].raises
    /\ pipeline' = [pipeline EXCEPT
                        !.called = Append(@, [step |-> pipeline.idx,
                                              previous_results |-> pipeline.results]),
                        !.results = SetItem(EmptyDict,
                                            pipeline.steps[pipeline.idx].name,
                                            ResultOf(pipeline.idx)),
                        !.idx = @ + 1]
    /\ UNCHANGED <<classVars, authVars, startVars, invocations>>

\* result = await func(previous_results=self.results, ...) returns:
\* self.results[name] = result
StepReturns ==
    /\ pipeline.kind = "Pipeline"
    /\ pipeline.pc = "run"
    /\ pipeline.idx <= Len(pipeline.steps)
    /\ ~pipeline.steps[pipeline.idx].raises
    /\ pipeline' = [pipeline EXCEPT
                        !.called = Append(@, [step |-> pipeline.idx,
                                              previous_results |-> pipeline.results]),
                        !.results = SetItem(@, pipeline.steps[pipeline.idx].name,
                                            ResultOf(pipeline.idx)),
                        !.idx = @ + 1]
    /\ UNCHANGED <<classVars, authVars, startVars, invocations>>

\* return self.results
ExecuteReturns ==
    /\ pipeline.kind = "Pipeline"
    /\ pipeline.pc = "run"
    /\ pipeline.idx > Len(pipeline.steps)
    /\ pipeline' = [pipeline EXCEPT !.pc = "returned"]
    /\ UNCHANGED <<classVars, authVars, startVars, invocations>>

NextPipeline ==
    add_step \/ execute \/ StepRaises \/ StepReturns \/ ExecuteReturns

SpecPipeline == InitPipeline /\ [][NextPipeline]_vars

\* no two steps of the pipeline have the same name
DistinctNames ==
    \A j, k \in 1..Len(pipeline.steps) :
        pipeline.steps[j].name = pipeline.steps[k].name => j = k

\* the calls so far are those of the steps 1, 2, ... in this order
CalledInOrder ==
    \A k \in 1..Len(pipeline.called) : pipeline.called[k].step = k

\* the result of step j is an entry of dict d
HoldsResultOf(d, j) == \E nm \in DOMAIN d : d[nm] = ResultOf(j)

C23_RaiseStopsPipeline ==
    /\ \A k \in 1..Len(pipeline.called) :
          pipeline.steps[pipeline.called[k].step].raises
          => /\ k = Len(pipeline.called)
             /\ pipeline.pc = "raised"
             /\ pipeline.results = pipeline.called[k].previous_results
             /\ ~HoldsResultOf(pipeline.results, pipeline.called[k].step)
             /\ \A j \in 1..(k - 1) : ~pipeline.steps[j].raises
    /\ pipeline.pc = "raised"
       => /\ pipeline.called # <<>>
          /\ pipeline.steps[Len(pipeline.called)].raises

\* C23 witness: the second of three steps raised after the first returned;
\* the result of the first is kept and the third was never called
C23_Witness ==
    /\ pipeline.pc = "raised"
    /\ Len(pipeline.steps) = 3
    /\ Len(pipeline.called) = 2
    /\ pipeline.steps[2].raises
    /\ DistinctNames
    /\ pipeline.results = SetItem(EmptyDict, pipeline.steps[1].name, ResultOf(1))

(***************************************************************************)
(* ConditionalPipeline (src/src/pipelines.py): a step may carry a          *)
(* condition on the results accumulated so far.  The conditions here are   *)
(* "none" (no condition given) and "has_search" (lambda r: "search" in r). *)
(***************************************************************************)
Conditions == {"none", "has_search"}

\* not (condition and not condition(self.results))
ConditionHolds(condition, results) ==
    \/ condition = "none"
    \/ condition = "has_search" /\ "search" \in DOMAIN results

\* ConditionalPipeline(ctx): self.steps = [], self.results = {}
InitConditional ==
    /\ route_maps = _route_maps
    /\ route = [method |-> "GET", path |-> Path_documents]
    /\ idx = 2
    /\ evaluated = {1, 2}
    /\ mcp_type = "RESOURCE"
    /\ surface = {[route |-> route, mcp_type |-> "RESOURCE"]}
    /\ cpc = "done"
    /\ runs = 1
    /\ prev_type = "NONE"
    /\ AuthIdle
    /\ Serving
    /\ invocations = <<>>
    /\ pipeline = [kind |-> "ConditionalPipeline", steps |-> <<>>,
                   results |-> EmptyDict, pc |-> "build", idx |-> 0,
                   seen |-> <<>>]

\* pipeline.add_step(name, func, condition=None, **kwargs)
add_conditional_step ==
    /\ pipeline.kind = "ConditionalPipeline"
    /\ pipeline.pc = "build"
    /\ Len(pipeline.steps) < MaxSteps
    /\ \E name \in StepNames : \E raises \in BOOLEAN :
       \E condition \in Conditions :
          pipeline' = [pipeline EXCEPT
                          !.steps = Append(@, [name |-> name,
                                               raises |-> raises,
                                               condition |-> condition])]
    /\ UNCHANGED <<classVars, authVars, startVars, invocations>>

\* await pipeline.execute(): the loop over self.steps begins
execute_conditional ==
    /\ pipeline.kind = "ConditionalPipeline"
    /\ pipeline.pc = "build"
    /\ pipeline' = [pipeline EXCEPT !.pc = "run", !.idx = 1]
    /\ UNCHANGED <<classVars, authVars, startVars, invocations>>

\* a loop that ends at the first step whose condition is false
SkipEndsLoop ==
    /\ pipeline.kind = "ConditionalPipeline"
    /\ pipeline.pc = "run"
    /\ pipeline.idx <= Len(pipeline.steps)
    /\ ~ConditionHolds(pipeline.steps[pipeline.idx].condition,
                       pipeline.results)
    /\ pipeline' = [pipeline EXCEPT
                        !.seen = Append(@, [step |-> pipeline.idx,
                                            ran |-> FALSE,
                                            results |-> pipeline.results]),
                        !.idx = Len(pipeline.steps) + 1]
    /\ UNCHANGED <<classVars, authVars, startVars, invocations>>

\* if condition and not condition(self.results): continue
Skip ==
    /\ pipeline.kind = "ConditionalPipeline"
    /\ pipeline.pc = "run"
    /\ pipeline.idx <= Len(pipeline.steps)
    /\ ~ConditionHolds(pipeline.steps[pipeline.idx].condition,
                       pipeline.results)
    /\ pipeline' = [pipeline EXCEPT
                        !.seen = Append(@, [step |-> pipeline.idx,
                                            ran |-> FALSE,
                                            results |-> pipeline.results]),
                        !.idx = @ + 1]
    /\ UNCHANGED <<classVars, authVars, startVars, invocations>>

\* the condition holds or is absent; result = await func(...) returns:
\* self.results[name] = result
ConditionalStepReturns ==
    /\ pipeline.kind = "ConditionalPipeline"
    /\ pipeline.pc = "run"
    /\ pipeline.idx <= Len(pipeline.steps)
    /\ ConditionHolds(pipeline.steps[pipeline.idx].condition,
                      pipeline.results)
    /\ ~pipeline.steps[pipeline.idx].raises
    /\ pipeline' = [pipeline EXCEPT
                        !.seen = Append(@, [step |-> pipeline.idx,
                                            ran |-> TRUE,
                                            results |-> pipeline.results]),
                        !.results = SetItem(@, pipeline.steps[pipeline.idx].name,
                                            ResultOf(pipeline.idx)),
                        !.idx = @ + 1]
    /\ UNCHANGED <<classVars, authVars, startVars, invocations>>

\* the condition holds or is absent; await func(...) raises: execute has
\* no except clause, the exception leaves it
ConditionalStepRaises ==
    /\ pipeline.kind = "ConditionalPipeline"
    /\ pipeline.pc = "run"
    /\ pipeline.idx <= Len(pipeline.steps)
    /\ ConditionHolds(pipeline.steps[pipeline.idx].condition,
                      pipeline.results)
    /\ pipeline.steps[pipeline.idx].raises
    /\ pipeline' = [pipeline EXCEPT
                        !.seen = Append(@, [step |-> pipeline.idx,
                                            ran |-> TRUE,
                                            results |-> pipeline.results]),
                        !.pc = "raised"]
    /\ UNCHANGED <<classVars, authVars, startVars, invocations>>

\* return self.results
ConditionalReturns ==
    /\ pipeline.kind = "ConditionalPipeline"
    /\ pipeline.pc = "run"
    /\ pipeline.idx > Len(pipeline.steps)
    /\ pipeline' = [pipeline EXCEPT !.pc = "returned"]
    /\ UNCHANGED <<classVars, authVars, startVars, invocations>>

NextConditional ==
    \/ add_conditional_step
    \/ execute_conditional
    \/ Skip
    \/ ConditionalStepReturns
    \/ ConditionalStepRaises
    \/ ConditionalReturns

SpecConditional == InitConditional /\ [][NextConditional]_vars

\* C24: the steps are evaluated in the order they were added; a step is
\* called exactly when it has no condition or its condition holds on the
\* results accumulated so far; a skipped step leaves the results as they
\* were and none of its values is in them; unless a step raised, every
\* step is evaluated before execute returns.
C24_FalseConditionSkips ==
    LET seen == pipeline.seen IN
    /\ \A k \in 1..Len(seen) :
          /\ seen[k].step = k
          /\ pipeline.steps[k].condition = "none" => seen[k].ran
          /\ pipeline.steps[k].condition = "has_search"
             => (seen[k].ran <=> \E j \in 1..(k - 1) :
                                    /\ seen[j].ran
                                    /\ pipeline.steps[j].name = "search")
          /\ ~seen[k].ran
             => /\ ~HoldsResultOf(pipeline.results, k)
                /\ IF k < Len(seen)
                      THEN seen[k + 1].results = seen[k].results
                      ELSE pipeline.results = seen[k].results
          /\ seen[k].ran /\ k < Len(seen)
             => seen[k + 1].results
                   = SetItem(seen[k].results, pipeline.steps[k].name,
                             ResultOf(k))
    /\ pipeline.pc = "returned" => Len(seen) = Len(pipeline.steps)
    /\ pipeline.pc = "raised"
       => /\ seen # <<>>
          /\ seen[Len(seen)].ran
          /\ pipeline.steps[Len(seen)].raises

\* C24 witness: of three steps the first is skipped because nothing is
\* called "search" yet, the second (search, no condition) and the third
\* (same condition, now true) run, and execute returns two results
C24_Witness ==
    /\ pipeline.pc = "returned"
    /\ Len(pipeline.steps) = 3
    /\ pipeline.steps[1] = [name |-> "analyze", raises |-> FALSE,
                            condition |-> "has_search"]
    /\ pipeline.steps[2] = [name |-> "search", raises |-> FALSE,
                            condition |-> "none"]
    /\ pipeline.steps[3] = [name |-> "summarize", raises |-> FALSE,
                            condition |-> "has_search"]
    /\ ~pipeline.seen[1].ran
    /\ pipeline.seen[2].ran
    /\ pipeline.seen[3].ran
    /\ DOMAIN pipeline.results = {"search", "summarize"}

(***************************************************************************)
(* sample_with_retry (src/src/pipelines.py).  ctx.sample either returns a  *)
(* response with a text or raises an exception.                            *)
(***************************************************************************)
SampleTexts == {"summary", "analysis"}
SampleErrors == {"TimeoutError", "RuntimeError", "ValueError"}

RECURSIVE Pow2(_)
\* 2 ** n
Pow2(n) == IF n = 0 THEN 1 ELSE 2 * Pow2(n - 1)

\* sample_with_retry(ctx, prompt, max_retries) is called
InitSample ==
    /\ route_maps = _route_maps
    /\ route = [method |-> "GET", path |-> Path_documents]
    /\ idx = 2
    /\ evaluated = {1, 2}
    /\ mcp_type = "RESOURCE"
    /\ surface = {[route |-> route, mcp_type |-> "RESOURCE"]}
    /\ cpc = "done"
    /\ runs = 1
    /\ prev_type = "NONE"
    /\ AuthIdle
    /\ Serving
    /\ invocations = <<>>
    /\ \E max_retries \in 0..MaxRetries :
          pipeline = [kind |-> "sample_with_retry",
                      max_retries |-> max_retries, attempt |-> 0,
                      attempts |-> <<>>, slept |-> <<>>, pc |-> "loop",
                      outcome |-> ""]

\* response = await ctx.sample(...) returns: return response.text
SampleReturns ==
    /\ pipeline.kind = "sample_with_retry"
    /\ pipeline.pc = "loop"
    /\ pipeline.attempt < pipeline.max_retries
    /\ \E text \in SampleTexts :
          pipeline' = [pipeline EXCEPT
                          !.attempts = Append(@, [ok |-> TRUE, text |-> text]),
                          !.pc = "returned",
                          !.outcome = text]
    /\ UNCHANGED <<classVars, authVars, startVars, invocations>>

\* ctx.sample raises and attempt < max_retries - 1:
\* await asyncio.sleep(2 ** attempt), then the next attempt
SampleFailsAndWaits ==
    /\ pipeline.kind = "sample_with_retry"
    /\ pipeline.pc = "loop"
    /\ pipeline.attempt < pipeline.max_retries - 1
    /\ \E e \in SampleErrors :
          pipeline' = [pipeline EXCEPT
                          !.attempts = Append(@, [ok |-> FALSE, text |-> e]),
                          !.slept = Append(@, Pow2(pipeline.attempt)),
                          !.attempt = @ + 1]
    /\ UNCHANGED <<classVars, authVars, startVars, invocations>>

\* ctx.sample raises and attempt == max_retries - 1: raise
SampleFailsLast ==
    /\ pipeline.kind = "sample_with_retry"
    /\ pipeline.pc = "loop"
    /\ pipeline.attempt = pipeline.max_retries - 1
    /\ \E e \in SampleErrors :
          pipeline' = [pipeline EXCEPT
                          !.attempts = Append(@, [ok |-> FALSE, text |-> e]),
                          !.pc = "raised",
                          !.outcome = e]
    /\ UNCHANGED <<classVars, authVars, startVars, invocations>>

\* range(max_retries) is exhausted: return ""
SampleLoopEnds ==
    /\ pipeline.kind = "sample_with_retry"
    /\ pipeline.pc = "loop"
    /\ pipeline.attempt >= pipeline.max_retries
    /\ pipeline' = [pipeline EXCEPT !.pc = "fell_through", !.outcome = ""]
    /\ UNCHANGED <<classVars, authVars, startVars, invocations>>

NextSample ==
    \/ SampleReturns
    \/ SampleFailsAndWaits
    \/ SampleFailsLast
    \/ SampleLoopEnds

SpecSample == InitSample /\ [][NextSample]_vars

\* at most max_retries attempts; a success is the last attempt and its text
\* is returned; a raise comes after max_retries failures and carries the
\* last exception
SampleAttemptsAsClaimed ==
    LET attempts == pipeline.attempts IN
    /\ Len(attempts) <= pipeline.max_retries
    /\ \A k \in 1..Len(attempts) :
          attempts[k].ok => k = Len(attempts) /\ pipeline.pc = "returned"
    /\ pipeline.pc = "returned"
       => /\ attempts # <<>>
          /\ attempts[Len(attempts)].ok
          /\ pipeline.outcome = attempts[Len(attempts)].text
    /\ pipeline.pc = "raised"
       => /\ Len(attempts) = pipeline.max_retries
          /\ \A k \in 1..Len(attempts) : ~attempts[k].ok
          /\ pipeline.outcome = attempts[Len(attempts)].text

\* C25: for every max_retries, sample_with_retry makes at most max_retries
\* attempts, returns the text of the first successful attempt, raises the
\* last exception when all attempts fail, and never reaches the final
\* return "".
C25_RetryNeverFallsThrough ==
    /\ SampleAttemptsAsClaimed
    /\ pipeline.pc # "fell_through"

\* C25 for max_retries >= 1: the same, and the waits between the attempts
\* are 1, 2, 4, ... seconds
C25_PositiveMaxRetries ==
    pipeline.max_retries >= 1
    => /\ SampleAttemptsAsClaimed
       /\ pipeline.pc # "fell_through"
       /\ \A k \in 1..Len(pipeline.slept) : pipeline.slept[k] = Pow2(k - 1)

(***************************************************************************)
(* pipeline_with_fallback (src/src/pipelines.py).  Each of the two         *)
(* functions, when called, returns a value or raises an Exception; the     *)
(* ctx.info and ctx.error calls are taken to return.                       *)
(***************************************************************************)
Prompts == {"Analyze this...", "Summarize this..."}
PrimaryResults == {"llm: positive", "llm: negative", "llm: mixed"}
FallbackResults == {"rules: positive", "rules: negative", "rules: unknown"}
PrimaryErrors == SampleErrors \cup {"ConnectionError"}
FallbackErrors == {"KeyError", "ValueError", "RuntimeError"}

\* pipeline_with_fallback(primary_func, fallback_func, ctx, **kwargs) is
\* called
InitFallback ==
    /\ route_maps = _route_maps
    /\ route = [method |-> "GET", path |-> Path_documents]
    /\ idx = 2
    /\ evaluated = {1, 2}
    /\ mcp_type = "RESOURCE"
    /\ surface = {[route |-> route, mcp_type |-> "RESOURCE"]}
    /\ cpc = "done"
    /\ runs = 1
    /\ prev_type = "NONE"
    /\ AuthIdle
    /\ Serving
    /\ invocations = <<>>
    /\ \E with_ctx \in BOOLEAN : \E prompt \in Prompts :
          pipeline = [kind |-> "pipeline_with_fallback",
                      with_ctx |-> with_ctx, prompt |-> prompt,
                      primary |-> [state |-> "pending", value |-> ""],
                      fallback |-> [state |-> "not_called", value |-> ""],
                      pc |-> "primary", outcome |-> ""]

\* result = await primary_func(ctx=ctx, **kwargs) returns: return result
PrimaryReturns ==
    /\ pipeline.kind = "pipeline_with_fallback"
    /\ pipeline.pc = "primary"
    /\ \E result \in PrimaryResults :
          pipeline' = [pipeline EXCEPT
                          !.primary = [state |-> "returned", value |-> result],
                          !.pc = "returned",
                          !.outcome = result]
    /\ UNCHANGED <<classVars, authVars, startVars, invocations>>

\* a primary failure that is passed on without trying the fallback
PrimaryRaisesToCaller ==
    /\ pipeline.kind = "pipeline_with_fallback"
    /\ pipeline.pc = "primary"
    /\ \E e \in PrimaryErrors :
          pipeline' = [pipeline EXCEPT
                          !.primary = [state |-> "raised", value |-> e],
                          !.pc = "raised",
                          !.outcome = e]
    /\ UNCHANGED <<classVars, authVars, startVars, invocations>>

\* await primary_func(ctx=ctx, **kwargs) raises: except Exception as e
PrimaryRaises ==
    /\ pipeline.kind = "pipeline_with_fallback"
    /\ pipeline.pc = "primary"
    /\ \E e \in PrimaryErrors :
          pipeline' = [pipeline EXCEPT
                          !.primary = [state |-> "raised", value |-> e],
                          !.pc = "fallback"]
    /\ UNCHANGED <<classVars, authVars, startVars, invocations>>

\* result = await fallback_func(ctx=ctx, **kwargs) returns: return result
FallbackReturns ==
    /\ pipeline.kind = "pipeline_with_fallback"
    /\ pipeline.pc = "fallback"
    /\ \E result \in FallbackResults :
          pipeline' = [pipeline EXCEPT
                          !.fallback = [state |-> "returned", value |-> result],
                          !.pc = "returned",
                          !.outcome = result]
    /\ UNCHANGED <<classVars, authVars, startVars, invocations>>

\* await fallback_func(ctx=ctx, **kwargs) raises: except Exception as
\* fallback_error: raise
FallbackRaises ==
    /\ pipeline.kind = "pipeline_with_fallback"
    /\ pipeline.pc = "fallback"
    /\ \E e \in FallbackErrors :
          pipeline' = [pipeline EXCEPT
                          !.fallback = [state |-> "raised", value |-> e],
                          !.pc = "raised",
                          !.outcome = e]
    /\ UNCHANGED <<classVars, authVars, startVars, invocations>>

NextFallback ==
    \/ PrimaryReturns
    \/ PrimaryRaises
    \/ FallbackReturns
    \/ FallbackRaises

SpecFallback == InitFallback /\ [][NextFallback]_vars

CacheKeys == {"search:ai"}
TTLs == {1, 2}
FuncErrors == {"RuntimeError"}

\* an entry left in the cache by an earlier call
EarlierEntry == [result |-> [by |-> 0], time |-> 0]

\* no entry
NoEntry == [result |-> [by |-> 0], time |-> 0 - 1]

\* del d[k]
DelItem(d, k) == [x \in DOMAIN d \ {k} |-> d[x]]

\* an age test that counts an entry of exactly ttl_seconds as young
IsYoungInclusive(entry, ttl_seconds, now) ==
    now - entry.time <= ttl_seconds

\* age = (datetime.utcnow() - cached_time).total_seconds();
\* age < ttl_seconds
IsYoung(entry, ttl_seconds, now) ==
    now - entry.time < ttl_seconds

\* every call so far has returned or raised
Idle ==
    \A i \in 1..Len(pipeline.calls) :
        pipeline.calls[i].pc \in {"returned", "raised"}

\* a call that has just been made
NewCall(cache_key, ttl_seconds, with_ctx) ==
    [cache_key |-> cache_key, ttl_seconds |-> ttl_seconds,
     with_ctx |-> with_ctx, pc |-> "start", seen |-> "",
     found |-> NoEntry, checked_at |-> pipeline.now, func_calls |-> 0,
     result |-> [by |-> 0], error |-> "", deleted |-> NoEntry,
     stored_at |-> 0 - 1]

\* the module is loaded (_pipeline_cache = {}), possibly followed by an
\* earlier call that left an entry at time 0
InitCache ==
    /\ route_maps = _route_maps
    /\ route = [method |-> "GET", path |-> Path_documents]
    /\ idx = 2
    /\ evaluated = {1, 2}
    /\ mcp_type = "RESOURCE"
    /\ surface = {[route |-> route, mcp_type |-> "RESOURCE"]}
    /\ cpc = "done"
    /\ runs = 1
    /\ prev_type = "NONE"
    /\ AuthIdle
    /\ Serving
    /\ invocations = <<>>
    /\ \E cache \in {EmptyDict} \cup
                      {[k \in {key} |-> EarlierEntry] : key \in CacheKeys} :
          pipeline = [kind |-> "cached_pipeline_step",
                      _pipeline_cache |-> cache, now |-> 0, calls |-> <<>>]

\* the clock advances
Tick ==
    /\ pipeline.kind = "cached_pipeline_step"
    /\ pipeline.now < MaxTime
    /\ pipeline' = [pipeline EXCEPT !.now = @ + 1]
    /\ UNCHANGED <<classVars, authVars, startVars, invocations>>

\* a call finds a young entry: return cached_result
CallHit ==
    /\ pipeline.kind = "cached_pipeline_step"
    /\ Len(pipeline.calls) < MaxCalls
    /\ \E cache_key \in CacheKeys : \E ttl_seconds \in TTLs :
       \E with_ctx \in BOOLEAN :
          /\ cache_key \in DOMAIN pipeline._pipeline_cache
          /\ LET entry == pipeline._pipeline_cache[cache_key] IN
             /\ IsYoung(entry, ttl_seconds, pipeline.now)
             /\ pipeline' = [pipeline EXCEPT
                   !.calls = Append(@,
                      [NewCall(cache_key, ttl_seconds, with_ctx) EXCEPT
                          !.seen = "young", !.found = entry,
                          !.result = entry.result, !.pc = "returned"])]
    /\ UNCHANGED <<classVars, authVars, startVars, invocations>>

\* a call finds an entry that is not young: with a ctx it awaits ctx.debug
\* before the del; without one it deletes the entry and awaits func
CallExpired ==
    /\ pipeline.kind = "cached_pipeline_step"
    /\ Len(pipeline.calls) < MaxCalls
    /\ \E cache_key \in CacheKeys : \E ttl_seconds \in TTLs :
       \E with_ctx \in BOOLEAN :
          /\ cache_key \in DOMAIN pipeline._pipeline_cache
          /\ LET entry == pipeline._pipeline_cache[cache_key] IN
             /\ ~IsYoung(entry, ttl_seconds, pipeline.now)
             /\ pipeline' =
                   IF with_ctx
                     THEN [pipeline EXCEPT
                             !.calls = Append(@,
                                [NewCall(cache_key, ttl_seconds, with_ctx) EXCEPT
                                    !.seen = "expired", !.found = entry,
                                    !.pc = "expired"])]
                     ELSE [pipeline EXCEPT
                             !._pipeline_cache = DelItem(@, cache_key),
                             !.calls = Append(@,
                                [NewCall(cache_key, ttl_seconds, with_ctx) EXCEPT
                                    !.seen = "expired", !.found = entry,
                                    !.deleted = entry, !.func_calls = 1,
                                    !.pc = "in_func"])]
    /\ UNCHANGED <<classVars, authVars, startVars, invocations>>

\* a call finds no entry: with a ctx it awaits ctx.info, without one it
\* awaits func
CallMissing ==
    /\ pipeline.kind = "cached_pipeline_step"
    /\ Len(pipeline.calls) < MaxCalls
    /\ \E cache_key \in CacheKeys : \E ttl_seconds \in TTLs :
       \E with_ctx \in BOOLEAN :
          /\ cache_key \notin DOMAIN pipeline._pipeline_cache
          /\ pipeline' =
                IF with_ctx
                  THEN [pipeline EXCEPT
                          !.calls = Append(@,
                             [NewCall(cache_key, ttl_seconds, with_ctx) EXCEPT
                                 !.seen = "missing", !.pc = "miss"])]
                  ELSE [pipeline EXCEPT
                          !.calls = Append(@,
                             [NewCall(cache_key, ttl_seconds, with_ctx) EXCEPT
                                 !.seen = "missing", !.func_calls = 1,
                                 !.pc = "in_func"])]
    /\ UNCHANGED <<classVars, authVars, startVars, invocations>>

\* after await ctx.debug: del _pipeline_cache[cache_key], the key is there
DeleteEntry(i) ==
    /\ pipeline.kind = "cached_pipeline_step"
    /\ pipeline.calls[i].pc = "expired"
    /\ pipeline.calls[i].cache_key \in DOMAIN pipeline._pipeline_cache
    /\ pipeline' = [pipeline EXCEPT
          !._pipeline_cache = DelItem(@, pipeline.calls[i].cache_key),
          !.calls[i].deleted =
              pipeline._pipeline_cache[pipeline.calls[i].cache_key],
          !.calls[i].pc = "miss"]
    /\ UNCHANGED <<classVars, authVars, startVars, invocations>>

\* after await ctx.debug: del _pipeline_cache[cache_key], the key is gone:
\* KeyError
DeleteRaisesKeyError(i) ==
    /\ pipeline.kind = "cached_pipeline_step"
    /\ pipeline.calls[i].pc = "expired"
    /\ pipeline.calls[i].cache_key \notin DOMAIN pipeline._pipeline_cache
    /\ pipeline' = [pipeline EXCEPT
          !.calls[i].error = "KeyError",
          !.calls[i].pc = "raised"]
    /\ UNCHANGED <<classVars, authVars, startVars, invocations>>

\* after await ctx.info: await func(**kwargs)
InvokeFunc(i) ==
    /\ pipeline.kind = "cached_pipeline_step"
    /\ pipeline.calls[i].pc = "miss"
    /\ pipeline' = [pipeline EXCEPT
          !.calls[i].func_calls = @ + 1,
          !.calls[i].pc = "in_func"]
    /\ UNCHANGED <<classVars, authVars, startVars, invocations>>

\* func returns: _pipeline_cache[cache_key] = (result, datetime.utcnow());
\* return result
FuncReturns(i) ==
    /\ pipeline.kind = "cached_pipeline_step"
    /\ pipeline.calls[i].pc = "in_func"
    /\ pipeline' = [pipeline EXCEPT
          !._pipeline_cache = SetItem(@, pipeline.calls[i].cache_key,
                                      [result |-> ResultOf(i),
                                       time |-> pipeline.now]),
          !.calls[i].result = ResultOf(i),
          !.calls[i].stored_at = pipeline.now,
          !.calls[i].pc = "returned"]
    /\ UNCHANGED <<classVars, authVars, startVars, invocations>>

\* func raises: the exception leaves cached_pipeline_step
FuncRaises(i) ==
    /\ pipeline.kind = "cached_pipeline_step"
    /\ pipeline.calls[i].pc = "in_func"
    /\ \E e \in FuncErrors :
          pipeline' = [pipeline EXCEPT
             !.calls[i].error = e,
             !.calls[i].pc = "raised"]
    /\ UNCHANGED <<classVars, authVars, startVars, invocations>>

\* calls that interleave at their await points
NextCache ==
    \/ Tick
    \/ CallHit
    \/ CallExpired
    \/ CallMissing
    \/ \E i \in 1..Len(pipeline.calls) : DeleteEntry(i)
    \/ \E i \in 1..Len(pipeline.calls) : DeleteRaisesKeyError(i)
    \/ \E i \in 1..Len(pipeline.calls) : InvokeFunc(i)
    \/ \E i \in 1..Len(pipeline.calls) : FuncReturns(i)
    \/ \E i \in 1..Len(pipeline.calls) : FuncRaises(i)

SpecCache == InitCache /\ [][NextCache]_vars

\* a call made while no other call is running
CallHitAlone == Idle /\ CallHit
CallExpiredAlone == Idle /\ CallExpired
CallMissingAlone == Idle /\ CallMissing

\* calls made one after the other
NextCacheAlone ==
    \/ Tick
    \/ CallHitAlone
    \/ CallExpiredAlone
    \/ CallMissingAlone
    \/ \E i \in 1..Len(pipeline.calls) : DeleteEntry(i)
    \/ \E i \in 1..Len(pipeline.calls) : InvokeFunc(i)
    \/ \E i \in 1..Len(pipeline.calls) : FuncReturns(i)
    \/ \E i \in 1..Len(pipeline.calls) : FuncRaises(i)

SpecCacheAlone == InitCache /\ [][NextCacheAlone]_vars

(***************************************************************************)
(* Claims about cached_pipeline_step.                                      *)
(***************************************************************************)
\* C27: calls made one after the other.  A call that finds an entry
\* younger than its ttl_seconds returns the cached result without invoking
\* func; a call that finds no entry or an older one, and returns, has
\* invoked func exactly once and left its result in the cache with the
\* time of the store; the next call, made less than its ttl_seconds after
\* that store, returns that result without invoking func.
C27_HitWithinTTL ==
    LET made == pipeline.calls IN
    /\ \A i \in 1..Len(made) :
          /\ made[i].func_calls <= 1
          /\ made[i].seen = "young"
             <=> /\ made[i].found # NoEntry
                 /\ made[i].checked_at - made[i].found.time
                       < made[i].ttl_seconds
          /\ made[i].seen = "expired"
             <=> /\ made[i].found # NoEntry
                 /\ made[i].checked_at - made[i].found.time
                       >= made[i].ttl_seconds
          /\ made[i].seen = "young"
             => /\ made[i].pc = "returned"
                /\ made[i].func_calls = 0
                /\ made[i].result = made[i].found.result
          /\ made[i].seen \in {"expired", "missing"}
             => /\ made[i].error \in FuncErrors \cup {""}
                /\ made[i].pc \in {"returned", "raised"}
                   => made[i].func_calls = 1
                /\ made[i].pc = "returned"
                   => /\ made[i].result = ResultOf(i)
                      /\ made[i].stored_at >= made[i].checked_at
          /\ made[i].seen \in {"expired", "missing"}
             /\ made[i].pc = "returned" /\ i = Len(made)
             => /\ made[i].cache_key \in DOMAIN pipeline._pipeline_cache
                /\ pipeline._pipeline_cache[made[i].cache_key]
                      = [result |-> made[i].result,
                         time |-> made[i].stored_at]
    /\ \A i \in 1..(Len(made) - 1) :
          /\ made[i].seen \in {"expired", "missing"}
          /\ made[i].pc = "returned"
          /\ made[i + 1].cache_key = made[i].cache_key
          /\ made[i + 1].checked_at - made[i].stored_at
                < made[i + 1].ttl_seconds
          => /\ made[i + 1].seen = "young"
             /\ made[i + 1].func_calls = 0
             /\ made[i + 1].result = made[i].result

\* C27 witness: a call at time 1 with a ttl of 1 finds the entry of time 0
\* expired, invokes func and stores the result at time 2; the next call,
\* at time 3 with a ttl of 2, returns that result without invoking func
C27_Witness ==
    /\ pipeline.kind = "cached_pipeline_step"
    /\ Len(pipeline.calls) = 2
    /\ pipeline.calls[1].seen = "expired"
    /\ pipeline.calls[1].found = EarlierEntry
    /\ pipeline.calls[1].checked_at = 1
    /\ pipeline.calls[1].ttl_seconds = 1
    /\ pipeline.calls[1].func_calls = 1
    /\ pipeline.calls[1].stored_at = 2
    /\ pipeline.calls[2].seen = "young"
    /\ pipeline.calls[2].checked_at = 3
    /\ pipeline.calls[2].ttl_seconds = 2
    /\ pipeline.calls[2].func_calls = 0
    /\ pipeline.calls[2].pc = "returned"
    /\ pipeline.calls[2].result = ResultOf(1)

\* C28: calls that interleave at their await points.  No call raises an
\* error that func did not raise, and the entry a call deletes is the
\* expired entry it found, never one that another call has stored since.
C28_ExpiredRemovalIsSafe ==
    \A i \in 1..Len(pipeline.calls) :
        /\ pipeline.calls[i].error \in FuncErrors \cup {""}
        /\ pipeline.calls[i].deleted # NoEntry
           => pipeline.calls[i].deleted = pipeline.calls[i].found

\* C28, first half only: no call raises KeyError
C28_NoKeyError ==
    \A i \in 1..Len(pipeline.calls) : pipeline.calls[i].error # "KeyError"

\* C28, second half only: no call deletes an entry stored after its check
C28_NoFreshEntryDeleted ==
    \A i \in 1..Len(pipeline.calls) :
        pipeline.calls[i].deleted.time <= pipeline.calls[i].checked_at
        /\ (pipeline.calls[i].deleted # NoEntry
             => pipeline.calls[i].deleted = pipeline.calls[i].found)

\* C28 for calls without a ctx: there is no await between the age test
\* and the del, and the claim holds
C28_WithoutCtx ==
    \A i \in 1..Len(pipeline.calls) :
        ~pipeline.calls[i].with_ctx
        => /\ pipeline.calls[i].error \in FuncErrors \cup {""}
           /\ pipeline.calls[i].deleted # NoEntry
              => pipeline.calls[i].deleted = pipeline.calls[i].found

(***************************************************************************)
(* pipeline_parallel_analysis (src/src/pipelines.py).  An item is "ok",    *)
(* has no 'text' key (KeyError) or makes ctx.sample raise; the tasks of    *)
(* asyncio.gather finish in any order.                                     *)
(***************************************************************************)
ItemKinds == {"ok", "no_text", "sample_fails"}

\* the lists of at most n items
RECURSIVE ItemLists(_)
ItemLists(n) ==
    IF n = 0 THEN {<<>>}
    ELSE LET shorter == ItemLists(n - 1) IN
         shorter \cup {Append(l, k) : l \in shorter, k \in ItemKinds}

\* pipeline_parallel_analysis(data, ctx) is called: one task per item
InitParallel ==
    /\ route_maps = _route_maps
    /\ route = [method |-> "GET", path |-> Path_documents]
    /\ idx = 2
    /\ evaluated = {1, 2}
    /\ mcp_type = "RESOURCE"
    /\ surface = {[route |-> route, mcp_type |-> "RESOURCE"]}
    /\ cpc = "done"
    /\ runs = 1
    /\ prev_type = "NONE"
    /\ AuthIdle
    /\ Serving
    /\ invocations = <<>>
    /\ \E data \in ItemLists(MaxItems) :
          pipeline = [kind |-> "pipeline_parallel_analysis", data |-> data,
                      finished |-> <<>>, pc |-> "gather", outcome |-> <<>>]

\* the tasks that have finished
FinishedTasks == {pipeline.finished[k].id : k \in 1..Len(pipeline.finished)}

\* analyze_item(item, i) returns {"id": ..., "analysis": ..., ...}
ItemSucceeds(i) ==
    /\ pipeline.kind = "pipeline_parallel_analysis"
    /\ pipeline.pc = "gather"
    /\ i \notin FinishedTasks
    /\ pipeline.data[i] = "ok"
    /\ pipeline' = [pipeline EXCEPT
                        !.finished = Append(@, [id |-> i, raised |-> FALSE])]
    /\ UNCHANGED <<classVars, authVars, startVars, invocations>>

\* analyze_item(item, i) raises: gather keeps the exception as its result
ItemRaises(i) ==
    /\ pipeline.kind = "pipeline_parallel_analysis"
    /\ pipeline.pc = "gather"
    /\ i \notin FinishedTasks
    /\ pipeline.data[i] # "ok"
    /\ pipeline' = [pipeline EXCEPT
                        !.finished = Append(@, [id |-> i, raised |-> TRUE])]
    /\ UNCHANGED <<classVars, authVars, startVars, invocations>>

\* the results of tasks i..n that did not raise
RECURSIVE SuccessfulFrom(_, _)
SuccessfulFrom(i, n) ==
    IF i > n THEN <<>>
    ELSE LET k == CHOOSE k \in 1..Len(pipeline.finished) :
                     pipeline.finished[k].id = i
         IN (IF pipeline.finished[k].raised THEN <<>> ELSE <<[id |-> i]>>)
            \o SuccessfulFrom(i + 1, n)

\* the results that did not raise, in the order the tasks finished
RECURSIVE SuccessfulAsFinished(_)
SuccessfulAsFinished(k) ==
    IF k > Len(pipeline.finished) THEN <<>>
    ELSE (IF pipeline.finished[k].raised THEN <<>>
          ELSE <<[id |-> pipeline.finished[k].id]>>)
         \o SuccessfulAsFinished(k + 1)

\* a gather that hands over the results as the tasks finish
GatherAsCompleted ==
    /\ pipeline.kind = "pipeline_parallel_analysis"
    /\ pipeline.pc = "gather"
    /\ FinishedTasks = 1..Len(pipeline.data)
    /\ pipeline' = [pipeline EXCEPT
                        !.outcome = SuccessfulAsFinished(1),
                        !.pc = "returned"]
    /\ UNCHANGED <<classVars, authVars, startVars, invocations>>

\* results = await asyncio.gather(*tasks, return_exceptions=True), in the
\* order of tasks; the results that are no Exception are returned
GatherReturns ==
    /\ pipeline.kind = "pipeline_parallel_analysis"
    /\ pipeline.pc = "gather"
    /\ FinishedTasks = 1..Len(pipeline.data)
    /\ pipeline' = [pipeline EXCEPT
                        !.outcome = SuccessfulFrom(1, Len(pipeline.data)),
                        !.pc = "returned"]
    /\ UNCHANGED <<classVars, authVars, startVars, invocations>>

NextParallel ==
    \/ \E i \in 1..Len(pipeline.data) : ItemSucceeds(i)
    \/ \E i \in 1..Len(pipeline.data) : ItemRaises(i)
    \/ GatherReturns

SpecParallel == InitParallel /\ [][NextParallel]_vars

\* C29: the call never ends by raising; the list it returns holds the
\* result of every item whose analysis succeeded and of no other, each
\* once, in the order of the input list.
C29_SuccessfulInInputOrder ==
    /\ pipeline.pc \in {"gather", "returned"}
    /\ pipeline.pc = "returned"
       => LET outcome == pipeline.outcome IN
          /\ {outcome[k].id : k \in 1..Len(outcome)}
                = {i \in 1..Len(pipeline.data) : pipeline.data[i] = "ok"}
          /\ \A k, l \in 1..Len(outcome) :
                k < l => outcome[k].id < outcome[l].id

\* C29 witness: of three items the second raised; the third finished
\* first, and the call returned the results of the first and the third
C29_Witness ==
    /\ pipeline.kind = "pipeline_parallel_analysis"
    /\ pipeline.pc = "returned"
    /\ pipeline.data = <<"ok", "sample_fails", "ok">>
    /\ pipeline.finished[1].id = 3
    /\ pipeline.outcome = <<[id |-> 1], [id |-> 3]>>

(***************************************************************************)
(* batch_upload (src/scripts/batch_ingest.py).  For a file the server      *)
(* accepts the document ("ok"), documents.create raises ("create_fails"),  *)
(* or the document is created and collections.add_document raises          *)
(* ("add_fails"; it matters only when a collection_id is given).           *)
(***************************************************************************)
FileKinds == {"ok", "create_fails", "add_fails"}

\* the lists of at most n files
RECURSIVE FileLists(_)
FileLists(n) ==
    IF n = 0 THEN {<<>>}
    ELSE LET shorter == FileLists(n - 1) IN
         shorter \cup {Append(l, k) : l \in shorter, k \in FileKinds}

\* batch_upload(client, directory, pattern, collection_id) is called:
\* files = list(directory.glob(pattern)), results = []
InitUpload ==
    /\ route_maps = _route_maps
    /\ route = [method |-> "GET", path |-> Path_documents]
    /\ idx = 2
    /\ evaluated = {1, 2}
    /\ mcp_type = "RESOURCE"
    /\ surface = {[route |-> route, mcp_type |-> "RESOURCE"]}
    /\ cpc = "done"
    /\ runs = 1
    /\ prev_type = "NONE"
    /\ AuthIdle
    /\ Serving
    /\ invocations = <<>>
    /\ \E files \in FileLists(MaxFiles) : \E with_collection \in BOOLEAN :
          pipeline = [kind |-> "batch_upload", files |-> files,
                      with_collection |-> with_collection, i |-> 1,
                      attempted |-> {}, created |-> {}, in_collection |-> {},
                      results |-> <<>>, pc |-> "loop"]

\* if not files: return []
NoFiles ==
    /\ pipeline.kind = "batch_upload"
    /\ pipeline.pc = "loop"
    /\ pipeline.files = <<>>
    /\ pipeline' = [pipeline EXCEPT !.pc = "returned"]
    /\ UNCHANGED <<classVars, authVars, startVars, invocations>>

\* documents.create returns, the document is added to the collection when
\* one is given, results.append(result)
UploadSucceeds ==
    /\ pipeline.kind = "batch_upload"
    /\ pipeline.pc = "loop"
    /\ pipeline.i <= Len(pipeline.files)
    /\ \/ pipeline.files[pipeline.i] = "ok"
       \/ pipeline.files[pipeline.i] = "add_fails" /\ ~pipeline.with_collection
    /\ pipeline' = [pipeline EXCEPT
          !.attempted = @ \cup {pipeline.i},
          !.created = @ \cup {pipeline.i},
          !.in_collection = IF pipeline.with_collection
                              THEN @ \cup {pipeline.i} ELSE @,
          !.results = Append(@, [document_id |-> pipeline.i]),
          !.i = @ + 1]
    /\ UNCHANGED <<classVars, authVars, startVars, invocations>>

\* documents.create raises: except Exception: continue
CreateFails ==
    /\ pipeline.kind = "batch_upload"
    /\ pipeline.pc = "loop"
    /\ pipeline.i <= Len(pipeline.files)
    /\ pipeline.files[pipeline.i] = "create_fails"
    /\ pipeline' = [pipeline EXCEPT
          !.attempted = @ \cup {pipeline.i},
          !.i = @ + 1]
    /\ UNCHANGED <<classVars, authVars, startVars, invocations>>

\* documents.create returns, collections.add_document raises before
\* results.append: except Exception: continue
AddDocumentFails ==
    /\ pipeline.kind = "batch_upload"
    /\ pipeline.pc = "loop"
    /\ pipeline.i <= Len(pipeline.files)
    /\ pipeline.files[pipeline.i] = "add_fails"
    /\ pipeline.with_collection
    /\ pipeline' = [pipeline EXCEPT
          !.attempted = @ \cup {pipeline.i},
          !.created = @ \cup {pipeline.i},
          !.i = @ + 1]
    /\ UNCHANGED <<classVars, authVars, startVars, invocations>>

\* the loop is over: return results
UploadReturns ==
    /\ pipeline.kind = "batch_upload"
    /\ pipeline.pc = "loop"
    /\ pipeline.files # <<>>
    /\ pipeline.i > Len(pipeline.files)
    /\ pipeline' = [pipeline EXCEPT !.pc = "returned"]
    /\ UNCHANGED <<classVars, authVars, startVars, invocations>>

NextUpload ==
    \/ NoFiles
    \/ UploadSucceeds
    \/ CreateFails
    \/ AddDocumentFails
    \/ UploadReturns

SpecUpload == InitUpload /\ [][NextUpload]_vars

\* the files whose result is in the list
InResults ==
    {pipeline.results[k].document_id : k \in 1..Len(pipeline.results)}

\* C30: when batch_upload returns, every file that matched was attempted,
\* and a file is in the results if and only if its document was created
\* on the server.
C30_ResultsAreTheUploaded ==
    pipeline.pc = "returned"
    => /\ pipeline.attempted = 1..Len(pipeline.files)
       /\ InResults = pipeline.created

\* C30, first half: every file is attempted, whatever failed before it
C30_EveryFileAttempted ==
    /\ pipeline.attempted = 1..(pipeline.i - 1)
    /\ pipeline.pc = "returned"
       => pipeline.attempted = 1..Len(pipeline.files)

\* C30, what the results do show: every file in them was created, and
\* without a collection_id the results are exactly the created documents
C30_ResultsWereCreated ==
    /\ InResults \subseteq pipeline.created
    /\ ~pipeline.with_collection => InResults = pipeline.created
    /\ pipeline.with_collection => InResults = pipeline.in_collection

====
